---- MODULE Spec2Model ----
(***************************************************************************)
(* Pigeon: a generator of TypeScript value classes and CRUD accessors     *)
(* from a PostgreSQL schema.  This module models                          *)
(*   - getCombinations            (packages/pigeon/src/utils.ts)          *)
(*   - run / queryDB / runGeneration and the bin entry                    *)
(*                                (packages/pigeon/src/cli.ts, index.ts,  *)
(*                                 packages/pigeon/bin/pigeon.ts)         *)
(*   - the per-table synthesis of runGeneration (class fields, enum       *)
(*     declarations, default-classes, imports).                           *)
(* Three specifications share the variables: SpecComb (the key-combination *)
(* enumerator as a pure function), Spec (one invocation of the command    *)
(* line tool) and SpecGen (runGeneration's per-table synthesis applied to *)
(* bounded schema models).                                                *)
(***************************************************************************)
EXTENDS Integers, Sequences, FiniteSets, TLC

VARIABLES
    valuesArray,    \* getCombinations: the argument
    combinations,   \* getCombinations: the returned array
    combPc,         \* "idle" | "ready" | "returned"
    \* one invocation of the command line tool
    flags,          \* cli.flags: [init, force, guided]
    cwdConfig,      \* does <cwd>/.pigeon.json exist
    configFile,     \* the file at flags.config: "valid" | "malformed" | "absent"
    catalog,        \* what the database answers: [tables, types]
    outDirs,        \* directories that exist at and below flags.output
    outFiles,       \* files below flags.output: path -> content
    pc,             \* position of run / the bin entry
    database,       \* the Database the current queryDB call was given
    qStep,          \* queryDB: the query to issue next
    qIndex,         \* queryDB: index of the type or table row being processed
    qRows,          \* queryDB: columnQuery.rows of the current table, as annotated so far
    qEnums,         \* queryDB: enums assembled so far
    qTables,        \* queryDB: tables assembled so far
    qLast,          \* queryDB: what the last runQuery call returned
    queryResult,    \* run: what the last queryDB call returned
    result,         \* what run returned (or that it threw)
    exitStatus,     \* the status process.exit was called with
    exitCalls,      \* how many times process.exit was called
    \* the synthesis applied to bounded schema models
    genErd,         \* the table of a pgAdmin ERD file handed to tableProcessing
    genTable,       \* the Table handed to runGeneration
    genEnums,       \* the enums handed to runGeneration
    genUnit,        \* the unit runGeneration writes for genTable
    genPc,          \* "idle" | "erd" | "model" | "unit" | "thrown" | "resolved" | "called" | "regenerated"
    genCall         \* one call of a generated accessor or of getType: its arguments and what it did

combVars == <<valuesArray, combinations, combPc>>

envVars == <<flags, cwdConfig, configFile, catalog>>

fsVars == <<outDirs, outFiles>>

qVars == <<qStep, qIndex, qRows, qEnums, qTables, qLast>>

runVars == <<flags, cwdConfig, configFile, catalog, outDirs, outFiles, pc, database,
             qStep, qIndex, qRows, qEnums, qTables, qLast, queryResult, result, exitStatus, exitCalls>>

genVars == <<genErd, genTable, genEnums, genUnit, genPc, genCall>>

vars == <<valuesArray, combinations, combPc,
          flags, cwdConfig, configFile, catalog, outDirs, outFiles, pc, database,
          qStep, qIndex, qRows, qEnums, qTables, qLast, queryResult, result, exitStatus, exitCalls,
          genErd, genTable, genEnums, genUnit, genPc, genCall>>

(***************************************************************************)
(* Bounds                                                                  *)
(***************************************************************************)
MaxLen == 4                      \* longest valuesArray handed to getCombinations

KeyValues == {"id", "email", "ref", "code"}   \* the values a key list is drawn from

(***************************************************************************)
(* Generic helpers                                                         *)
(***************************************************************************)
RECURSIVE Pow2(_)
Pow2(n) == IF n = 0 THEN 1 ELSE 2 * Pow2(n - 1)

SeqsUpTo(S, n) == UNION {[1..k -> S] : k \in 0..n}

Range(s) == {s[k] : k \in 1..Len(s)}

IsInjective(s) == \A i, j \in 1..Len(s) : s[i] = s[j] => i = j

\* combinations.sort((a, b) => a.length - b.length): stable, ascending.
RECURSIVE InsertByLength(_, _)
InsertByLength(sorted, x) ==
    IF sorted = <<>> THEN <<x>>
    ELSE IF Len(x) < Len(sorted[Len(sorted)])
         THEN Append(InsertByLength(SubSeq(sorted, 1, Len(sorted) - 1), x), sorted[Len(sorted)])
         ELSE Append(sorted, x)

RECURSIVE SortByLength(_)
SortByLength(s) ==
    IF s = <<>> THEN <<>>
    ELSE InsertByLength(SortByLength(SubSeq(s, 1, Len(s) - 1)), s[Len(s)])

(***************************************************************************)
(* getCombinations (utils.ts)                                              *)
(***************************************************************************)
\* (i & Math.pow(2, j)) is truthy: bit j of i is set.
BitSet(i, j) == (i \div Pow2(j)) % 2 = 1

\* A bug that would push the selected values back to front.
RECURSIVE CombinationAt_Reversed(_, _, _)
CombinationAt_Reversed(values, i, j) ==
    IF j >= Len(values) THEN <<>>
    ELSE IF BitSet(i, j)
         THEN Append(CombinationAt_Reversed(values, i, j + 1), values[j + 1])
         ELSE CombinationAt_Reversed(values, i, j + 1)

\* The inner loop: temp = []; for j in 0..n-1: if bit j of i then temp.push(values[j]).
RECURSIVE CombinationAt(_, _, _)
CombinationAt(values, i, j) ==
    IF j >= Len(values) THEN <<>>
    ELSE IF BitSet(i, j)
         THEN <<values[j + 1]>> \o CombinationAt(values, i, j + 1)
         ELSE CombinationAt(values, i, j + 1)

\* The outer loop: for i in 0..2^n - 1, push temp when it is not empty.
RECURSIVE CombinationsFrom(_, _)
CombinationsFrom(values, i) ==
    IF i >= Pow2(Len(values)) THEN <<>>
    ELSE LET temp == CombinationAt(values, i, 0)
         IN  (IF Len(temp) > 0 THEN <<temp>> ELSE <<>>) \o CombinationsFrom(values, i + 1)

\* A bug that would return the subsets in counting order, without the sort.
getCombinations_Unsorted(values) == CombinationsFrom(values, 0)

getCombinations(values) == SortByLength(CombinationsFrom(values, 0))

CombIdle ==
    /\ valuesArray = <<>>
    /\ combinations = <<>>
    /\ combPc = "idle"

(***************************************************************************)
(* Values                                                                  *)
(*   A default expression is a sequence of tokens, a type name a sequence  *)
(*   of characters, so that String.includes is a real substring test.      *)
(***************************************************************************)
Null == <<"null">>                \* null, where a default expression is expected
NullStr == "null"                 \* null, where a string is expected
Undefined == "undefined"          \* undefined, where a string is expected

NowDefault == <<"now()">>
NextvalDefault == <<"nextval", "('seq'::regclass)">>

Int4 == <<"i", "n", "t", "4">>
Text == <<"t", "e", "x", "t">>
StatusType == <<"s", "t">>                     \* an enum type
UserStatusType == <<"u", "_", "s", "t">>       \* an enum type whose name contains the other's

\* String.prototype.includes
Includes(hay, needle) ==
    \E i \in 0..(Len(hay) - Len(needle)) : SubSeq(hay, i + 1, i + Len(needle)) = needle

\* a string in a condition: undefined and "" are falsy
Truthy(x) == x # Undefined /\ x # ""

(***************************************************************************)
(* The schema model (index.ts: PigeonError, Column, Table, Enum)            *)
(***************************************************************************)
PigeonError(exitCode, message, error) ==
    [kind |-> "PigeonError", exitCode |-> exitCode, message |-> message, error |-> error]

IsPigeonError(v) == v.kind = "PigeonError"

\* jsType, the target type, is not modelled: no modelled decision reads it
Column(name, position, defaultValue, isNullable, pgType, isIdentity, identityGeneration, isPrimary, isUnique, isForeign, foreignSchema, foreignTable, foreignColumn) ==
    [name |-> name, position |-> position, defaultValue |-> defaultValue,
     isNullable |-> isNullable, pgType |-> pgType, isIdentity |-> isIdentity,
     identityGeneration |-> identityGeneration, isPrimary |-> isPrimary,
     isUnique |-> isUnique, isForeign |-> isForeign, foreignSchema |-> foreignSchema,
     foreignTable |-> foreignTable, foreignColumn |-> foreignColumn]

Table(name, schema, columns) == [name |-> name, schema |-> schema, columns |-> columns]

Enum(name, labels) == [name |-> name, labels |-> labels]

\* resolveNativeType: the canonical native name of a column's type.
getPGType(dataType, udtName) ==
    IF dataType = "ARRAY" THEN Tail(udtName) \o <<"[", "]">> ELSE udtName

(***************************************************************************)
(* runQuery (utils.ts): the rows, or undefined when connect or query threw *)
(***************************************************************************)
QueryUndefined == [kind |-> "undefined"]

runQuery(ok, rows) == IF ok THEN [kind |-> "rows", rows |-> rows] ELSE QueryUndefined

(***************************************************************************)
(* queryDB (index.ts): the annotation loops                                 *)
(***************************************************************************)
\* columnQuery.rows as received: no key flag is set yet.
ReceivedRow(row) ==
    [row |-> row, isPrimary |-> FALSE, isUnique |-> FALSE, isForeign |-> FALSE,
     foreignSchema |-> Undefined, foreignTable |-> Undefined, foreignColumn |-> Undefined]

\* for (pKey of pKeyQuery.rows) for (column of rows) if names match: isPrimary = true
MarkPrimary(rows, pKeys) ==
    [k \in 1..Len(rows) |->
        IF \E i \in 1..Len(pKeys) : pKeys[i] = rows[k].row.column_name
        THEN [rows[k] EXCEPT !.isPrimary = TRUE] ELSE rows[k]]

\* for (fKey of fKeyQuery.rows) for (column of rows) if it is this table's column:
\* isForeign = true and the coordinates of the (last matching) edge.
RECURSIVE MarkForeign(_, _, _, _)
MarkForeign(rows, fKeys, i, table) ==
    IF i > Len(fKeys) THEN rows
    ELSE LET fKey == fKeys[i]
             marked == [k \in 1..Len(rows) |->
                 IF /\ fKey.local_schema = table.table_schema
                    /\ fKey.local_table = table.table_name
                    /\ fKey.local_column = rows[k].row.column_name
                 THEN [rows[k] EXCEPT !.isForeign = TRUE,
                                      !.foreignSchema = fKey.foreign_schema,
                                      !.foreignTable = fKey.foreign_table,
                                      !.foreignColumn = fKey.foreign_column]
                 ELSE rows[k]]
         IN  MarkForeign(marked, fKeys, i + 1, table)

\* for (unique of uniques) for (column of rows) if names match: isUnique = true
MarkUnique(rows, uniques) ==
    [k \in 1..Len(rows) |->
        IF \E i \in 1..Len(uniques) : uniques[i] = rows[k].row.column_name
        THEN [rows[k] EXCEPT !.isUnique = TRUE] ELSE rows[k]]

RECURSIVE InsertByPosition(_, _)
InsertByPosition(sorted, x) ==
    IF sorted = <<>> THEN <<x>>
    ELSE IF x.position < sorted[Len(sorted)].position
         THEN Append(InsertByPosition(SubSeq(sorted, 1, Len(sorted) - 1), x), sorted[Len(sorted)])
         ELSE Append(sorted, x)

\* columns.sort((a, b) => a.position - b.position)
RECURSIVE SortByPosition(_)
SortByPosition(s) ==
    IF s = <<>> THEN <<>>
    ELSE InsertByPosition(SortByPosition(SubSeq(s, 1, Len(s) - 1)), s[Len(s)])

\* for (column of columnQuery.rows) columns.push(new Column(...)): in row order.
BuildColumns(rows) ==
    [k \in 1..Len(rows) |->
        LET r == rows[k].row
        IN  Column(r.column_name, r.ordinal_position, r.column_default, r.is_nullable = "YES",
                   getPGType(r.data_type, r.udt_name), r.is_identity = "YES",
                   r.identity_generation, rows[k].isPrimary, rows[k].isUnique,
                   rows[k].isForeign, rows[k].foreignSchema, rows[k].foreignTable,
                   rows[k].foreignColumn)]

(***************************************************************************)
(* runGeneration (index.ts): the synthesis of one table's unit             *)
(***************************************************************************)
HasForeignTarget(column) ==
    /\ column.isForeign
    /\ Truthy(column.foreignColumn)
    /\ Truthy(column.foreignTable)
    /\ Truthy(column.foreignSchema)

\* the module path of an import line: "./<table>.js" or "../<schema>/<table>.js"
ImportFile(table, column) ==
    IF table.schema # column.foreignSchema
    THEN <<"..", column.foreignSchema, column.foreignTable>>
    ELSE <<".", column.foreignTable>>

ImportLine(table, column) ==
    [symbol |-> <<"get", column.foreignTable>>,
     file |-> ImportFile(table, column),
     key |-> <<column.foreignSchema, column.foreignTable>>]

\* A bug that would emit one import line per foreign-key column.
RECURSIVE ImportLines_PerColumn(_, _, _)
ImportLines_PerColumn(table, k, lines) ==
    IF k > Len(table.columns) THEN lines
    ELSE LET column == table.columns[k]
         IN  IF ~HasForeignTarget(column)
             THEN ImportLines_PerColumn(table, k + 1, lines)
             ELSE IF table.schema = column.foreignSchema /\ table.name = column.foreignTable
             THEN ImportLines_PerColumn(table, k + 1, lines)
             ELSE ImportLines_PerColumn(table, k + 1, Append(lines, ImportLine(table, column)))

\* The import loop: a foreign-key column adds the import of the referenced
\* table's module unless it references the table itself or the module is
\* already in imports.
RECURSIVE ImportLines(_, _, _)
ImportLines(table, k, lines) ==
    IF k > Len(table.columns) THEN lines
    ELSE LET column == table.columns[k]
         IN  IF ~HasForeignTarget(column)
             THEN ImportLines(table, k + 1, lines)
             ELSE IF table.schema = column.foreignSchema /\ table.name = column.foreignTable
             THEN ImportLines(table, k + 1, lines)
             ELSE IF \E i \in 1..Len(lines) :
                         lines[i].key = <<column.foreignSchema, column.foreignTable>>
             THEN ImportLines(table, k + 1, lines)
             ELSE ImportLines(table, k + 1, Append(lines, ImportLine(table, column)))

\* The enum loop: for every enum, for every column whose pgType includes the
\* enum's name, one class declaration with the labels in their order.
EnumDeclarationsOf(cEnum, columns) ==
    LET using == SelectSeq(columns, LAMBDA column : Includes(column.pgType, cEnum.name))
    IN  [k \in 1..Len(using) |-> [name |-> cEnum.name, labels |-> cEnum.labels]]

RECURSIVE EnumDeclarations(_, _, _)
EnumDeclarations(enums, columns, i) ==
    IF i > Len(enums) THEN <<>>
    ELSE EnumDeclarationsOf(enums[i], columns) \o EnumDeclarations(enums, columns, i + 1)

\* createClass: one field per column and one constructor parameter per column,
\* both in the order of the columns array.
createClass(tableName, columns) ==
    [name |-> tableName,
     fields |-> [k \in 1..Len(columns) |-> columns[k].name],
     ctor |-> [k \in 1..Len(columns) |-> columns[k].name]]

\* the three branches of the default-class chain
IsRequired(column) == column.defaultValue = Null /\ ~column.isIdentity

IsOptional(column) ==
    \/ column.defaultValue # Null /\ ~Includes(column.defaultValue, <<"nextval">>)
    \/ column.isIdentity /\ column.identityGeneration = "BY DEFAULT"

IsAutoGenerated(column) ==
    \/ column.defaultValue # Null /\ Includes(column.defaultValue, <<"nextval">>)
    \/ column.isIdentity /\ column.identityGeneration = "ALWAYS"

\* if / else if / else if: the array a column is pushed to, or "none".
DefaultClass(column) ==
    IF IsRequired(column) THEN "required"
    ELSE IF IsOptional(column) THEN "optional"
    ELSE IF IsAutoGenerated(column) THEN "autoGenerated"
    ELSE "none"

ColumnsOfClass(columns, class) == SelectSeq(columns, LAMBDA column : DefaultClass(column) = class)

\* [...new Set(columns)]: the first occurrence of each element
RECURSIVE Dedup(_)
Dedup(s) ==
    IF s = <<>> THEN <<>>
    ELSE LET init == Dedup(SubSeq(s, 1, Len(s) - 1))
         IN  IF \E i \in 1..Len(init) : init[i] = s[Len(s)] THEN init ELSE Append(init, s[Len(s)])

\* A bug that would check a nullable column without a condition.
createAdd_Unguarded(required, optional, autoGenerated, hasForeign) ==
    LET editableColumns == required \o optional
        checked == IF hasForeign THEN SelectSeq(editableColumns, HasForeignTarget) ELSE <<>>
        returned == SortByPosition(Dedup(editableColumns \o autoGenerated))
    IN  [checks |-> [k \in 1..Len(checked) |->
                        [column |-> checked[k].name,
                         accessor |-> <<"get", checked[k].foreignTable>>,
                         guard |-> "always"]],
         ctorArgs |-> [k \in 1..Len(returned) |-> returned[k].name]]

\* createAdd: the foreign-key checks over the editable columns, each under
\* the condition the text puts around it (a nullable column: value neither
\* undefined nor null; otherwise none), and the arguments handed to the
\* class constructor, sorted by position.
createAdd(required, optional, autoGenerated, hasForeign) ==
    LET editableColumns == required \o optional
        checked == IF hasForeign THEN SelectSeq(editableColumns, HasForeignTarget) ELSE <<>>
        returned == SortByPosition(Dedup(editableColumns \o autoGenerated))
    IN  [checks |-> [k \in 1..Len(checked) |->
                        [column |-> checked[k].name,
                         accessor |-> <<"get", checked[k].foreignTable>>,
                         guard |-> IF checked[k].isNullable THEN "definedNotNull" ELSE "always"]],
         ctorArgs |-> [k \in 1..Len(returned) |-> returned[k].name]]

\* createUpdate: the foreign-key checks over all columns, each under the
\* condition the text puts around it (a nullable column: value neither
\* undefined nor null; otherwise: value not undefined).
createUpdate(columns, hasForeign) ==
    LET checked == IF hasForeign THEN SelectSeq(columns, HasForeignTarget) ELSE <<>>
    IN  [checks |-> [k \in 1..Len(checked) |->
                        [column |-> checked[k].name,
                         accessor |-> <<"get", checked[k].foreignTable>>,
                         guard |-> IF checked[k].isNullable THEN "definedNotNull" ELSE "defined"]]]

\* the characters of the type names, in collation order
Alphabet == <<"_", "4", "e", "i", "n", "s", "t", "u", "x">>

CharRank(c) == CHOOSE i \in 1..Len(Alphabet) : Alphabet[i] = c

\* a.localeCompare(b) as -1, 0 or 1
RECURSIVE LocaleCompare(_, _)
LocaleCompare(a, b) ==
    IF a = <<>> /\ b = <<>> THEN 0
    ELSE IF a = <<>> THEN -1
    ELSE IF b = <<>> THEN 1
    ELSE IF CharRank(Head(a)) < CharRank(Head(b)) THEN -1
    ELSE IF CharRank(Head(a)) > CharRank(Head(b)) THEN 1
    ELSE LocaleCompare(Tail(a), Tail(b))

RECURSIVE InsertByPgType(_, _)
InsertByPgType(sorted, x) ==
    IF sorted = <<>> THEN <<x>>
    ELSE IF LocaleCompare(x.pgType, sorted[Len(sorted)].pgType) < 0
         THEN Append(InsertByPgType(SubSeq(sorted, 1, Len(sorted) - 1), x), sorted[Len(sorted)])
         ELSE Append(sorted, x)

\* the columns ordered by pgType, columns of one type in their order
RECURSIVE SortByPgType(_)
SortByPgType(s) ==
    IF s = <<>> THEN <<>>
    ELSE InsertByPgType(SortByPgType(SubSeq(s, 1, Len(s) - 1)), s[Len(s)])

NoCast == <<>>

\* the switch of getTypecast: one case label per column, the columns of one
\* type sharing the return of the last of them
TypecastCases(typeColumns) ==
    [i \in 1..Len(typeColumns) |->
        [case |-> typeColumns[i].name,
         returns |-> IF i # Len(typeColumns) /\ typeColumns[i].pgType = typeColumns[i + 1].pgType
                     THEN NoCast ELSE typeColumns[i].pgType]]

\* A bug that would order the caller's array itself (sort for toSorted).
createGetTypecast_SortInPlace(columns) ==
    [text |-> TypecastCases(SortByPgType(columns)), columns |-> SortByPgType(columns)]

\* createGetTypecast: its text, and its argument array as the call leaves
\* it: toSorted orders a copy
createGetTypecast(columns) ==
    [text |-> TypecastCases(SortByPgType(columns)), columns |-> columns]

\* table.columns after the loop body: createClass, createGet, createUpdate
\* and createDelete only iterate the array, createAdd gets the arrays
\* required, optional and autoGenerated built in the loop body and sorts a
\* copy of their concatenation, createGetTypecast is the one call that
\* orders table.columns
ColumnsAfterGeneration(table) == createGetTypecast(table.columns).columns

\* The body of runGeneration's loop over the tables: the text written to
\* <dir>/<schema>/<table>.ts, as its parts.
GenerateUnit(table, enums) ==
    LET importLines == ImportLines(table, 1, <<>>)
        required == ColumnsOfClass(table.columns, "required")
        optional == ColumnsOfClass(table.columns, "optional")
        autoGenerated == ColumnsOfClass(table.columns, "autoGenerated")
    IN  [kind |-> "unit",
         schema |-> table.schema,
         name |-> table.name,
         importLines |-> importLines,
         enumDeclarations |-> EnumDeclarations(enums, table.columns, 1),
         class |-> createClass(table.name, table.columns),
         getTypecast |-> createGetTypecast(table.columns).text,
         required |-> [k \in 1..Len(required) |-> required[k].name],
         optional |-> [k \in 1..Len(optional) |-> optional[k].name],
         autoGenerated |-> [k \in 1..Len(autoGenerated) |-> autoGenerated[k].name],
         add |-> createAdd(required, optional, autoGenerated, Len(importLines) # 0),
         update |-> createUpdate(table.columns, Len(importLines) # 0)]

(***************************************************************************)
(* The file system below flags.output                                      *)
(*   a directory is its path, <<>> for flags.output itself; a file is      *)
(*   <<schema, name>>                                                      *)
(***************************************************************************)
NoFiles == [path \in {} |-> "none"]

WriteFile(files, path, content) ==
    [q \in (DOMAIN files) \cup {path} |-> IF q = path THEN content ELSE files[q]]

DirExistsError ==
    PigeonError(1, "", "Generation directory already exists. Add the --force flag if you want to overwrite it.")

\* A bug that would take an existing directory as it is.
createDir_Reuse(dirs, dirPath) ==
    [error |-> FALSE, dirs |-> dirs \cup {dirPath}]

\* createDir: an error when the directory exists, else mkdir.
createDir(dirs, dirPath) ==
    IF dirPath \in dirs
    THEN [error |-> TRUE, dirs |-> dirs]
    ELSE [error |-> FALSE, dirs |-> dirs \cup {dirPath}]

\* deleteDir: removes the directory and everything below it.
deleteDir(dirs, files) ==
    IF <<>> \in dirs
    THEN [dirs |-> {}, files |-> NoFiles]
    ELSE [dirs |-> dirs, files |-> files]

createIndex(db) == [kind |-> "index", db |-> db]

\* let schemas = []; for (table of tables) if (!schemas.includes(...)) schemas.push(...)
Schemas(tables) == Dedup([k \in 1..Len(tables) |-> tables[k].schema])

\* for (schema of schemas) { createDir(dir/schema); write dir/schema/index.ts }
RECURSIVE CreateSchemaDirs(_, _, _, _, _)
CreateSchemaDirs(schemas, i, dirs, files, db) ==
    IF i > Len(schemas) THEN [error |-> FALSE, dirs |-> dirs, files |-> files]
    ELSE LET made == createDir(dirs, <<schemas[i]>>)
         IN  IF made.error
             THEN [error |-> TRUE, dirs |-> dirs, files |-> files]
             ELSE CreateSchemaDirs(schemas, i + 1, made.dirs,
                                   WriteFile(files, <<schemas[i], "index">>, createIndex(db)), db)

\* for (table of tables) { ...; fs.writeFileSync(dir/schema/name.ts, ts) }
RECURSIVE WriteUnits(_, _, _, _)
WriteUnits(tables, enums, i, files) ==
    IF i > Len(tables) THEN files
    ELSE WriteUnits(tables, enums, i + 1,
                    WriteFile(files, <<tables[i].schema, tables[i].name>>,
                              GenerateUnit(tables[i], enums)))

Void == [kind |-> "void"]

NoTablesError == PigeonError(1, "", "No tables were found.")

\* A bug that would create the output directory before looking at the tables.
runGeneration_DirFirst(dirs, files, db, tables, enums) ==
    LET root == createDir(dirs, <<>>)
    IN  IF root.error
        THEN [result |-> DirExistsError, dirs |-> dirs, files |-> files]
        ELSE IF Len(tables) = 0
        THEN [result |-> NoTablesError, dirs |-> root.dirs, files |-> files]
        ELSE LET sub == CreateSchemaDirs(Schemas(tables), 1, root.dirs, files, db)
             IN  [result |-> Void, dirs |-> sub.dirs,
                  files |-> WriteUnits(tables, enums, 1, sub.files)]

\* runGeneration(dir, db, tables, enums): what it returns and what it leaves
\* on disk.
runGeneration(dirs, files, db, tables, enums) ==
    IF Len(tables) = 0
    THEN [result |-> NoTablesError, dirs |-> dirs, files |-> files]
    ELSE LET root == createDir(dirs, <<>>)
         IN  IF root.error
             THEN [result |-> DirExistsError, dirs |-> dirs, files |-> files]
             ELSE LET sub == CreateSchemaDirs(Schemas(tables), 1, root.dirs, files, db)
                  IN  IF sub.error
                      THEN [result |-> DirExistsError, dirs |-> sub.dirs, files |-> sub.files]
                      ELSE [result |-> Void, dirs |-> sub.dirs,
                            files |-> WriteUnits(tables, enums, 1, sub.files)]

(***************************************************************************)
(* tableProcessing (pgAdmin.ts): the Table of one table of an ERD file     *)
(***************************************************************************)
EmptyString == <<>>                       \* "" as a default expression
UndefinedDefault == <<"undefined">>       \* undefined as a default expression

Serial == <<"s", "e", "r", "i", "a", "l">>
Integer == <<"i", "n", "t", "e", "g", "e", "r">>

\* the catalog's (data_type, udt_name) of an ERD column type
getTypesByDataType(cltype) ==
    IF cltype \in {Serial, Integer}
    THEN [dataType |-> "integer", udtName |-> Int4]
    ELSE [dataType |-> "USER-DEFINED", udtName |-> cltype]

\* references_table_name.match(/(?:\((.*?)\))? ?(.*)/): "(schema) table" or "table"
ParseReference(ref) ==
    LET hasSchema == Len(ref) >= 3 /\ ref[1] = "(" /\ ref[3] = ")"
        afterSchema == IF hasSchema THEN SubSeq(ref, 4, Len(ref)) ELSE ref
        rest == IF afterSchema # <<>> /\ afterSchema[1] = " " THEN Tail(afterSchema) ELSE afterSchema
    IN  [schema |-> IF hasSchema THEN ref[2] ELSE Undefined,
         table |-> IF rest = <<>> THEN "" ELSE rest[1]]

\* the foreign_key loops: the last edge on the column decides the coordinates
RECURSIVE ErdForeign(_, _, _, _)
ErdForeign(data, columnName, edges, found) ==
    IF edges = <<>> THEN found
    ELSE LET edge == Head(edges)
             match == ParseReference(edge.references_table_name)
         IN  IF edge.local_column = columnName
             THEN ErdForeign(data, columnName, Tail(edges),
                             [isForeign |-> TRUE,
                              foreignSchema |-> IF Truthy(match.schema) THEN match.schema ELSE data.schema,
                              foreignTable |-> match.table,
                              foreignColumn |-> edge.referenced])
             ELSE ErdForeign(data, columnName, Tail(edges), found)

\* all foreignKey.columns of data.foreign_key, in order
RECURSIVE ErdEdges(_)
ErdEdges(foreignKeys) ==
    IF foreignKeys = <<>> THEN <<>>
    ELSE Head(foreignKeys).columns \o ErdEdges(Tail(foreignKeys))

\* identityGeneration: null unless the column is an identity with attidentity a or b
ErdIdentityGeneration(column) ==
    IF column.colconstype = "i"
    THEN IF column.attidentity = "b" THEN "BY DEFAULT"
         ELSE IF column.attidentity = "a" THEN "ALWAYS"
         ELSE NullStr
    ELSE NullStr

\* the body of the loop over data.columns
ErdColumnToColumn(data, column, ordinalPossition) ==
    LET types == getTypesByDataType(column.cltype)
        defval == IF Includes(column.cltype, Serial) THEN NextvalDefault ELSE column.defval
        columnDefault == IF defval # EmptyString /\ defval # UndefinedDefault THEN defval ELSE Null
        foreign == ErdForeign(data, column.name, ErdEdges(data.foreign_key),
                              [isForeign |-> FALSE, foreignSchema |-> Undefined,
                               foreignTable |-> Undefined, foreignColumn |-> Undefined])
        isUnique == \E u \in 1..Len(data.unique_constraint) :
                        \E c \in 1..Len(data.unique_constraint[u].columns) :
                            data.unique_constraint[u].columns[c].column = column.name
    IN  Column(column.name, ordinalPossition, columnDefault, ~column.attnotnull,
               getPGType(types.dataType, types.udtName), column.colconstype = "i",
               ErdIdentityGeneration(column),
               column.name = data.primary_key[1].columns[1].column,
               isUnique, foreign.isForeign, foreign.foreignSchema, foreign.foreignTable,
               foreign.foreignColumn)

\* data.primary_key[0].columns[0].column is read for every column: a TypeError
\* when the table has no primary key
ErdThrows(data) ==
    /\ Len(data.columns) > 0
    /\ \/ Len(data.primary_key) = 0
       \/ Len(data.primary_key[1].columns) = 0

tableProcessing(data) ==
    Table(data.name, data.schema,
          [k \in 1..Len(data.columns) |-> ErdColumnToColumn(data, data.columns[k], k)])

\* An ERD file is its first characters and the tables of its
\* "diagram-nodes" section.
VersionHead == "{\"version\":"

NotErdError == PigeonError(1, "", "The file specified is not an pgAdmin ERD file.")

\* getRelationshipsAndTables: a file that does not start with {"version":
\* makes it throw the PigeonError
getRelationshipsAndTables(json) ==
    IF json.head # VersionHead
    THEN [outcome |-> "thrown", value |-> NotErdError]
    ELSE [outcome |-> "returned",
          value |-> [kind |-> "erd", relationships |-> <<>>, tables |-> json.nodes]]

(***************************************************************************)
(* queryDB (index.ts) on the catalog of the schema an ERD table draws      *)
(***************************************************************************)
\* the columns query: one row per column of the table, in ordinal order
CatalogColumnRows(data) ==
    [k \in 1..Len(data.columns) |->
        LET column == data.columns[k]
            types == getTypesByDataType(column.cltype)
        IN  ReceivedRow([column_name |-> column.name, ordinal_position |-> k,
                         column_default |-> IF Includes(column.cltype, Serial) THEN NextvalDefault
                                            ELSE IF column.defval = EmptyString THEN Null
                                            ELSE column.defval,
                         is_nullable |-> IF column.attnotnull THEN "NO" ELSE "YES",
                         data_type |-> types.dataType, udt_name |-> types.udtName,
                         is_identity |-> IF column.colconstype = "i" THEN "YES" ELSE "NO",
                         identity_generation |-> ErdIdentityGeneration(column)])]

\* the primary key query: ku.column_name of every column of the key
RECURSIVE CatalogPrimaryKey(_)
CatalogPrimaryKey(primaryKeys) ==
    IF primaryKeys = <<>> THEN <<>>
    ELSE [c \in 1..Len(Head(primaryKeys).columns) |-> Head(primaryKeys).columns[c].column]
         \o CatalogPrimaryKey(Tail(primaryKeys))

\* the foreign key query: one row per column of a foreign key of the table
CatalogForeignKeys(data) ==
    LET edges == ErdEdges(data.foreign_key)
    IN  [i \in 1..Len(edges) |->
            LET target == ParseReference(edges[i].references_table_name)
            IN  [local_schema |-> data.schema, local_table |-> data.name,
                 local_column |-> edges[i].local_column,
                 foreign_schema |-> IF Truthy(target.schema) THEN target.schema ELSE data.schema,
                 foreign_table |-> target.table,
                 foreign_column |-> edges[i].referenced]]

\* the unique query: array_agg(a.attname) over the table's unique constraints
RECURSIVE CatalogUniques(_)
CatalogUniques(constraints) ==
    IF constraints = <<>> THEN <<>>
    ELSE [c \in 1..Len(Head(constraints).columns) |-> Head(constraints).columns[c].column]
         \o CatalogUniques(Tail(constraints))

\* the body of queryDB's loop for the table, every query answered
queryDBTable(data) ==
    LET table == [table_schema |-> data.schema, table_name |-> data.name]
        primary == MarkPrimary(CatalogColumnRows(data), CatalogPrimaryKey(data.primary_key))
        foreign == MarkForeign(primary, CatalogForeignKeys(data), 1, table)
        unique == MarkUnique(foreign, CatalogUniques(data.unique_constraint))
    IN  Table(table.table_name, table.table_schema, BuildColumns(unique))

\* what the claims on keys compare of a Table: each column's name, position
\* and key annotations
KeyModel(table) ==
    [k \in 1..Len(table.columns) |->
        [name |-> table.columns[k].name,
         position |-> table.columns[k].position,
         isPrimary |-> table.columns[k].isPrimary,
         isUnique |-> table.columns[k].isUnique,
         isForeign |-> table.columns[k].isForeign,
         foreignSchema |-> table.columns[k].foreignSchema,
         foreignTable |-> table.columns[k].foreignTable,
         foreignColumn |-> table.columns[k].foreignColumn]]

\* the synthesis variables of a behaviour that does not use them
NoTable == Table("", "", <<>>)
NoUnit == [kind |-> "none"]
NoCall == [fn |-> "none"]
NoErd == [name |-> "", schema |-> "", columns |-> <<>>, primary_key |-> <<>>,
          foreign_key |-> <<>>, unique_constraint |-> <<>>]

GenIdle ==
    /\ genErd = NoErd
    /\ genTable = NoTable
    /\ genEnums = <<>>
    /\ genUnit = NoUnit
    /\ genPc = "idle"
    /\ genCall = NoCall

(***************************************************************************)
(* The environment of one invocation                                       *)
(***************************************************************************)
MaxTables == 2                   \* most tables in the catalog

ColumnRow(name, position, default, nullable, dataType, udtName, identity, generation) ==
    [column_name |-> name, ordinal_position |-> position, column_default |-> default,
     is_nullable |-> nullable, data_type |-> dataType, udt_name |-> udtName,
     is_identity |-> identity, identity_generation |-> generation]

IdRow == ColumnRow("id", 1, NextvalDefault, "NO", "integer", Int4, "NO", NullStr)
OwnerRow == ColumnRow("owner", 2, Null, "YES", "integer", Int4, "NO", NullStr)

\* information_schema.columns is read without ORDER BY: the rows come in any order.
RowOrders == {<<IdRow, OwnerRow>>, <<OwnerRow, IdRow>>}

TableName(k) == "t" \o ToString(k)

ForeignKeyRow(schema, k) ==
    [local_schema |-> schema, local_table |-> TableName(k), local_column |-> "owner",
     foreign_schema |-> "s", foreign_table |-> TableName(1), foreign_column |-> "id"]

\* the k-th table of a catalog: the first lives in schema s, a later one in s
\* or p and may reference the first
CatalogTables(k) ==
    {[table_schema |-> schema, table_name |-> TableName(k), rows |-> rows,
      pKeys |-> <<"id">>, fKeys |-> fKeys, uniques |-> <<>>] :
        schema \in (IF k = 1 THEN {"s"} ELSE {"s", "p"}),
        rows \in RowOrders,
        fKeys \in (IF k = 1 THEN {<<>>} ELSE {<<>>, <<ForeignKeyRow("s", k)>>, <<ForeignKeyRow("p", k)>>})}

CatalogTableLists ==
    UNION {{ts \in [1..n -> UNION {CatalogTables(k) : k \in 1..n}] :
                \A k \in 1..n : /\ ts[k] \in CatalogTables(k)
                                /\ \A i \in 1..Len(ts[k].fKeys) :
                                       ts[k].fKeys[i].local_schema = ts[k].table_schema} :
           n \in 0..MaxTables}

CatalogTypeLists ==
    {<<>>, <<[typname |-> StatusType, labels |-> <<"active", "inactive">>]>>}

Catalogs == [tables : CatalogTableLists, types : CatalogTypeLists]

\* what flags.output holds before the invocation
OldDirs == {<<>>, <<"s">>}
OldFiles == WriteFile(NoFiles, <<"s", "old">>, [kind |-> "old"])

NoResult == [kind |-> "none"]
Thrown == [kind |-> "thrown"]

RunIdle ==
    /\ flags = [init |-> FALSE, force |-> FALSE, guided |-> FALSE]
    /\ cwdConfig = FALSE
    /\ configFile = "absent"
    /\ catalog = [tables |-> <<>>, types |-> <<>>]
    /\ outDirs = {}
    /\ outFiles = NoFiles
    /\ pc = "idle"
    /\ database = "none"
    /\ qStep = "none"
    /\ qIndex = 0
    /\ qRows = <<>>
    /\ qEnums = <<>>
    /\ qTables = <<>>
    /\ qLast = NoResult
    /\ queryResult = NoResult
    /\ result = NoResult
    /\ exitStatus = -1
    /\ exitCalls = 0

Init ==
    /\ CombIdle
    /\ GenIdle
    /\ flags \in [init : BOOLEAN, force : BOOLEAN, guided : BOOLEAN]
    /\ cwdConfig \in BOOLEAN
    /\ configFile \in {"valid", "malformed", "absent"}
    /\ (~cwdConfig) => (configFile = "absent")
    /\ catalog \in Catalogs
    /\ \E old \in BOOLEAN :
           /\ outDirs = IF old THEN OldDirs ELSE {}
           /\ outFiles = IF old THEN OldFiles ELSE NoFiles
    /\ pc = "start"
    /\ database = "none"
    /\ qStep = "none"
    /\ qIndex = 0
    /\ qRows = <<>>
    /\ qEnums = <<>>
    /\ qTables = <<>>
    /\ qLast = NoResult
    /\ queryResult = NoResult
    /\ result = NoResult
    /\ exitStatus = -1
    /\ exitCalls = 0

(***************************************************************************)
(* queryDB (index.ts), one action per catalog query                        *)
(***************************************************************************)
SqlError == PigeonError(1, "", "An SQL error has occurred.")

Model(tables, enums) == [kind |-> "model", tables |-> tables, enums |-> enums]

\* A bug that would hand back what was assembled before the failing query.
queryFailed_Partial(tables, enums) == Model(tables, enums)

\* if (typeof xQuery === "undefined") return new PigeonError(1, "", ...)
queryFailed(tables, enums) == SqlError

\* queryDB is called with a Database: its first query is the tables query.
StartQueryDB(db) ==
    /\ pc' = "queryDB"
    /\ database' = db
    /\ qStep' = "tables"
    /\ qIndex' = 0
    /\ qRows' = <<>>
    /\ qEnums' = <<>>
    /\ qTables' = <<>>
    /\ qLast' = NoResult
    /\ queryResult' = NoResult

\* queryDB returns value to run, which awaits it.
ReturnFromQueryDB(value) ==
    /\ queryResult' = value
    /\ pc' = IF database = "guided" THEN "afterGuided" ELSE "afterQuery"
    /\ qStep' = "none"

\* enumsQuery returned the enums: the loop over the tables starts, or queryDB
\* returns when there is no table.
EnterTableLoop(enums) ==
    IF Len(catalog.tables) = 0
    THEN /\ ReturnFromQueryDB(Model(<<>>, enums))
         /\ UNCHANGED qIndex
    ELSE /\ qStep' = "columns"
         /\ qIndex' = 1
         /\ UNCHANGED <<pc, queryResult>>

QueryTables ==
    /\ pc = "queryDB" /\ qStep = "tables"
    /\ \E ok \in BOOLEAN :
        LET tableQuery == runQuery(ok, catalog.tables)
        IN  /\ qLast' = tableQuery
            /\ IF tableQuery = QueryUndefined
               THEN ReturnFromQueryDB(queryFailed(qTables, qEnums))
               ELSE /\ qStep' = "types"
                    /\ UNCHANGED <<pc, queryResult>>
    /\ UNCHANGED <<envVars, fsVars, combVars, genVars, database, qIndex, qRows, qEnums, qTables,
                   result, exitStatus, exitCalls>>

QueryCustomTypes ==
    /\ pc = "queryDB" /\ qStep = "types"
    /\ \E ok \in BOOLEAN :
        LET customTypeQuery == runQuery(ok, catalog.types)
        IN  /\ qLast' = customTypeQuery
            /\ IF customTypeQuery = QueryUndefined
               THEN /\ ReturnFromQueryDB(queryFailed(qTables, qEnums))
                    /\ UNCHANGED qIndex
               ELSE IF Len(catalog.types) = 0
               THEN EnterTableLoop(qEnums)
               ELSE /\ qStep' = "labels"
                    /\ qIndex' = 1
                    /\ UNCHANGED <<pc, queryResult>>
    /\ UNCHANGED <<envVars, fsVars, combVars, genVars, database, qRows, qEnums, qTables,
                   result, exitStatus, exitCalls>>

QueryEnumLabels ==
    /\ pc = "queryDB" /\ qStep = "labels"
    /\ \E ok \in BOOLEAN :
        LET type == catalog.types[qIndex]
            enumQuery == runQuery(ok, type.labels)
            enums == Append(qEnums, Enum(type.typname, type.labels))
        IN  /\ qLast' = enumQuery
            /\ IF enumQuery = QueryUndefined
               THEN /\ ReturnFromQueryDB(queryFailed(qTables, qEnums))
                    /\ UNCHANGED <<qIndex, qEnums>>
               ELSE /\ qEnums' = enums
                    /\ IF qIndex = Len(catalog.types)
                       THEN EnterTableLoop(enums)
                       ELSE /\ qIndex' = qIndex + 1
                            /\ UNCHANGED <<pc, queryResult, qStep>>
    /\ UNCHANGED <<envVars, fsVars, combVars, genVars, database, qRows, qTables,
                   result, exitStatus, exitCalls>>

QueryColumns ==
    /\ pc = "queryDB" /\ qStep = "columns"
    /\ \E ok \in BOOLEAN :
        LET table == catalog.tables[qIndex]
            columnQuery == runQuery(ok, table.rows)
        IN  /\ qLast' = columnQuery
            /\ IF columnQuery = QueryUndefined
               THEN /\ ReturnFromQueryDB(queryFailed(qTables, qEnums))
                    /\ UNCHANGED qRows
               ELSE /\ qRows' = [k \in 1..Len(table.rows) |-> ReceivedRow(table.rows[k])]
                    /\ qStep' = "pKeys"
                    /\ UNCHANGED <<pc, queryResult>>
    /\ UNCHANGED <<envVars, fsVars, combVars, genVars, database, qIndex, qEnums, qTables,
                   result, exitStatus, exitCalls>>

QueryPrimaryKeys ==
    /\ pc = "queryDB" /\ qStep = "pKeys"
    /\ \E ok \in BOOLEAN :
        LET table == catalog.tables[qIndex]
            pKeyQuery == runQuery(ok, table.pKeys)
        IN  /\ qLast' = pKeyQuery
            /\ IF pKeyQuery = QueryUndefined
               THEN /\ ReturnFromQueryDB(queryFailed(qTables, qEnums))
                    /\ UNCHANGED qRows
               ELSE /\ qRows' = MarkPrimary(qRows, table.pKeys)
                    /\ qStep' = "fKeys"
                    /\ UNCHANGED <<pc, queryResult>>
    /\ UNCHANGED <<envVars, fsVars, combVars, genVars, database, qIndex, qEnums, qTables,
                   result, exitStatus, exitCalls>>

QueryForeignKeys ==
    /\ pc = "queryDB" /\ qStep = "fKeys"
    /\ \E ok \in BOOLEAN :
        LET table == catalog.tables[qIndex]
            fKeyQuery == runQuery(ok, table.fKeys)
        IN  /\ qLast' = fKeyQuery
            /\ IF fKeyQuery = QueryUndefined
               THEN /\ ReturnFromQueryDB(queryFailed(qTables, qEnums))
                    /\ UNCHANGED qRows
               ELSE /\ qRows' = MarkForeign(qRows, table.fKeys, 1, table)
                    /\ qStep' = "uniques"
                    /\ UNCHANGED <<pc, queryResult>>
    /\ UNCHANGED <<envVars, fsVars, combVars, genVars, database, qIndex, qEnums, qTables,
                   result, exitStatus, exitCalls>>

\* the unique-constraint query, and on success the assembly of the Table
QueryUniques ==
    /\ pc = "queryDB" /\ qStep = "uniques"
    /\ \E ok \in BOOLEAN :
        LET table == catalog.tables[qIndex]
            uniqueQuery == runQuery(ok, table.uniques)
            rows == MarkUnique(qRows, table.uniques)
            tables == Append(qTables, Table(table.table_name, table.table_schema, BuildColumns(rows)))
        IN  /\ qLast' = uniqueQuery
            /\ IF uniqueQuery = QueryUndefined
               THEN /\ ReturnFromQueryDB(queryFailed(qTables, qEnums))
                    /\ UNCHANGED <<qRows, qTables, qIndex>>
               ELSE /\ qRows' = rows
                    /\ qTables' = tables
                    /\ IF qIndex = Len(catalog.tables)
                       THEN /\ ReturnFromQueryDB(Model(tables, qEnums))
                            /\ UNCHANGED qIndex
                       ELSE /\ qStep' = "columns"
                            /\ qIndex' = qIndex + 1
                            /\ UNCHANGED <<pc, queryResult>>
    /\ UNCHANGED <<envVars, fsVars, combVars, genVars, database, qEnums,
                   result, exitStatus, exitCalls>>

(***************************************************************************)
(* createConfig (config.ts), run (cli.ts) and the bin entry (bin/pigeon.ts) *)
(***************************************************************************)
ConfigExistsError == PigeonError(1, "", "A Pigeon configuration file already exists.")
ConfigCreated == PigeonError(0, "Configuration file successfully created!", NullStr)
ConfigMissingError == PigeonError(1, "", "The configuration file does not exist.")

\* if (flags.init) return createConfig(flags.cwd)
RunInit ==
    /\ pc = "start"
    /\ flags.init
    /\ IF cwdConfig
       THEN /\ result' = ConfigExistsError
            /\ UNCHANGED <<cwdConfig, configFile>>
       ELSE /\ result' = ConfigCreated
            /\ cwdConfig' = TRUE
            /\ configFile' = "valid"
    /\ pc' = "returned"
    /\ UNCHANGED <<flags, catalog, fsVars, combVars, genVars, qVars, database, queryResult,
                   exitStatus, exitCalls>>

\* The configuration step of run: the existence test on <cwd>/.pigeon.json,
\* JSON.parse(fs.readFileSync(flags.config)) and the call of queryDB.
ReadConfigAndQuery ==
    IF ~cwdConfig
    THEN /\ result' = ConfigMissingError
         /\ pc' = "returned"
         /\ UNCHANGED <<qVars, database, queryResult>>
    ELSE IF configFile # "valid"
    THEN /\ result' = Thrown
         /\ pc' = "thrown"
         /\ UNCHANGED <<qVars, database, queryResult>>
    ELSE /\ StartQueryDB("config")
         /\ UNCHANGED result

\* run up to its first await: --force deletes the output directory, --guided
\* asks for the connection parameters and queries the database with them.
RunBegin ==
    /\ pc = "start"
    /\ ~flags.init
    /\ LET deleted == deleteDir(outDirs, outFiles)
       IN  /\ outDirs' = IF flags.force THEN deleted.dirs ELSE outDirs
           /\ outFiles' = IF flags.force THEN deleted.files ELSE outFiles
    /\ IF flags.guided
       THEN /\ StartQueryDB("guided")
            /\ UNCHANGED result
       ELSE ReadConfigAndQuery
    /\ UNCHANGED <<envVars, combVars, genVars, exitStatus, exitCalls>>

\* run after the guided queryDB call: an error is returned, anything else
\* falls through to the configuration step.
RunAfterGuided ==
    /\ pc = "afterGuided"
    /\ IF IsPigeonError(queryResult)
       THEN /\ result' = queryResult
            /\ pc' = "returned"
            /\ UNCHANGED <<qVars, database, queryResult>>
       ELSE ReadConfigAndQuery
    /\ UNCHANGED <<envVars, fsVars, combVars, genVars, exitStatus, exitCalls>>

\* run after queryDB(database): an error is returned, else runGeneration is
\* called and its error, if any, returned.
RunAfterQuery ==
    /\ pc = "afterQuery"
    /\ IF IsPigeonError(queryResult)
       THEN /\ result' = queryResult
            /\ UNCHANGED fsVars
       ELSE LET generationResult ==
                    runGeneration(outDirs, outFiles, database, queryResult.tables, queryResult.enums)
            IN  /\ result' = generationResult.result
                /\ outDirs' = generationResult.dirs
                /\ outFiles' = generationResult.files
    /\ pc' = "returned"
    /\ UNCHANGED <<envVars, combVars, genVars, qVars, database, queryResult, exitStatus, exitCalls>>

\* A bug that would report success whatever run returned.
ExitStatusOf_IgnoreError(value) == IF value = Thrown THEN 2 ELSE 0

\* the bin entry: result.exitCode for a PigeonError, 0 for anything else that
\* run returned, 2 in the catch block
ExitStatusOf(value) ==
    IF value = Thrown THEN 2
    ELSE IF IsPigeonError(value) THEN value.exitCode
    ELSE 0

BinExit ==
    /\ pc \in {"returned", "thrown"}
    /\ exitStatus' = ExitStatusOf(result)
    /\ exitCalls' = exitCalls + 1
    /\ pc' = "exited"
    /\ UNCHANGED <<envVars, fsVars, combVars, genVars, qVars, database, queryResult, result>>

Next ==
    \/ RunInit
    \/ RunBegin
    \/ QueryTables
    \/ QueryCustomTypes
    \/ QueryEnumLabels
    \/ QueryColumns
    \/ QueryPrimaryKeys
    \/ QueryForeignKeys
    \/ QueryUniques
    \/ RunAfterGuided
    \/ RunAfterQuery
    \/ BinExit

Spec == Init /\ [][Next]_vars

(***************************************************************************)
(* The earlier runGeneration (cli.ts): createAdd and createUpdate put      *)
(* their import lines into the text and a resolver hoists and merges them. *)
(* The text is a sequence of lines: import lines and code.                 *)
(***************************************************************************)
CodeLine(of) == [kind |-> "code", of |-> of]

\* import {get<Table>By<Column>} from "<file>";
AccessorImport(tableSchema, tableName, column) ==
    [kind |-> "import",
     functions |-> <<<<"get", column.foreignTable, "By", column.foreignColumn>>>>,
     brackets |-> TRUE,
     file |-> ImportFile(Table(tableName, tableSchema, <<>>), column)]

\* the loop at the head of createAdd and createUpdate: one import line per
\* foreign-key column that references another table
RECURSIVE AccessorImports(_, _, _)
AccessorImports(tableSchema, tableName, columns) ==
    IF columns = <<>> THEN <<>>
    ELSE LET column == Head(columns)
             rest == AccessorImports(tableSchema, tableName, Tail(columns))
         IN  IF HasForeignTarget(column)
                /\ ~(tableSchema = column.foreignSchema /\ tableName = column.foreignTable)
             THEN <<AccessorImport(tableSchema, tableName, column)>> \o rest
             ELSE rest

createAdd_cli(tableSchema, tableName, nonDefaults, softDefaults, hardDefaults) ==
    AccessorImports(tableSchema, tableName,
                    SortByPosition(nonDefaults \o softDefaults \o hardDefaults))
        \o <<CodeLine("add")>>

createUpdate_cli(tableSchema, tableName, columns, keys) ==
    AccessorImports(tableSchema, tableName, columns) \o <<CodeLine("update")>>

RECURSIVE Flatten(_)
Flatten(texts) ==
    IF texts = <<>> THEN <<>> ELSE Head(texts) \o Flatten(Tail(texts))

\* ts before the resolver: the client, the class and the get accessors, then
\* one insert accessor for no soft default and one per combination of soft
\* defaults, then one update accessor per combination of keys
UnresolvedText(table) ==
    LET keys == SelectSeq(table.columns,
                          LAMBDA column : column.isPrimary \/ column.isForeign \/ column.isUnique)
        nonDefaults == ColumnsOfClass(table.columns, "required")
        softDefaults == ColumnsOfClass(table.columns, "optional")
        hardDefaults == ColumnsOfClass(table.columns, "autoGenerated")
        softCombinations == getCombinations(softDefaults)
        keyCombinations == getCombinations(keys)
    IN  <<CodeLine("client"), CodeLine("class"), CodeLine("get")>>
        \o createAdd_cli(table.schema, table.name, nonDefaults, <<>>, hardDefaults \o softDefaults)
        \o Flatten([k \in 1..Len(softCombinations) |->
                        createAdd_cli(table.schema, table.name, nonDefaults, softCombinations[k],
                                      hardDefaults \o softDefaults)])
        \o Flatten([k \in 1..Len(keyCombinations) |->
                        createUpdate_cli(table.schema, table.name, table.columns, keyCombinations[k])])

\* the loop over the matches: a match joins the import object of its file and
\* bracket form, or founds one; functions collects match[1] of each match,
\* the whole list between "import" and "from"
RECURSIVE ImportObjects(_, _)
ImportObjects(matches, importObjects) ==
    IF matches = <<>> THEN importObjects
    ELSE LET match == Head(matches)
             fileExists == \E i \in 1..Len(importObjects) :
                               /\ importObjects[i].file = match.file
                               /\ importObjects[i].brackets = match.brackets
             joined == [i \in 1..Len(importObjects) |->
                           IF /\ importObjects[i].file = match.file
                              /\ importObjects[i].brackets = match.brackets
                           THEN [importObjects[i] EXCEPT
                                     !.functions = Append(importObjects[i].functions, match.functions)]
                           ELSE importObjects[i]]
         IN  ImportObjects(Tail(matches),
                           IF fileExists THEN joined
                           ELSE Append(importObjects,
                                       [kind |-> "import", functions |-> <<match.functions>>,
                                        brackets |-> match.brackets, file |-> match.file]))

PgImport == [kind |-> "import", functions |-> <<<<"pg">>>>, brackets |-> FALSE, file |-> <<"pg">>]

NoText == <<>>

\* A bug that would keep every match[1] of a file, repeated or not.
ResolveImports_NoDedup(ts) ==
    LET matches == SelectSeq(ts, LAMBDA line : line.kind = "import")
        importObjects == ImportObjects(matches, <<>>)
    IN  [i \in 1..Len(importObjects) |->
            [importObjects[i] EXCEPT !.functions = Flatten(importObjects[i].functions)]]
        \o <<PgImport, CodeLine("Client")>>
        \o SelectSeq(ts, LAMBDA line : line.kind = "code")

\* the resolver: every import line is cut out of ts, the lines of one file
\* are merged into one line with each distinct match[1] once, and the merged
\* lines, the pg import and the Client declaration are put before the rest.
\* The pg import is itself a line the regex matches.
ResolveImports(ts) ==
    LET matches == SelectSeq(ts, LAMBDA line : line.kind = "import")
        importObjects == ImportObjects(matches, <<>>)
    IN  [i \in 1..Len(importObjects) |->
            [importObjects[i] EXCEPT !.functions = Flatten(Dedup(importObjects[i].functions))]]
        \o <<PgImport, CodeLine("Client")>>
        \o SelectSeq(ts, LAMBDA line : line.kind = "code")

\* the signature createAdd gives an insert accessor: its parameters are
\* nonDefaults.concat(softDefaults) sorted by position
AddSignature_cli(nonDefaults, softDefaults) ==
    LET columns == SortByPosition(nonDefaults \o softDefaults)
    IN  [soft |-> [k \in 1..Len(softDefaults) |-> softDefaults[k].name],
         params |-> [k \in 1..Len(columns) |->
                        [name |-> columns[k].name, position |-> columns[k].position]]]

\* A bug that would leave out the accessor that takes no soft default.
InsertAccessors_cli_NoEmpty(table) ==
    LET softCombinations == getCombinations(ColumnsOfClass(table.columns, "optional"))
    IN  [k \in 1..Len(softCombinations) |->
            AddSignature_cli(ColumnsOfClass(table.columns, "required"), softCombinations[k])]

\* the createAdd calls of runGeneration: one with no soft default, then one
\* per combination of the soft defaults
InsertAccessors_cli(table) ==
    LET softCombinations == getCombinations(ColumnsOfClass(table.columns, "optional"))
    IN  <<AddSignature_cli(ColumnsOfClass(table.columns, "required"), <<>>)>>
        \o [k \in 1..Len(softCombinations) |->
               AddSignature_cli(ColumnsOfClass(table.columns, "required"), softCombinations[k])]

\* the unit the earlier runGeneration writes for the table
GenerateUnit_cli(table) ==
    [kind |-> "unit_cli", schema |-> table.schema, name |-> table.name,
     unresolved |-> UnresolvedText(table),
     text |-> ResolveImports(UnresolvedText(table)),
     adds |-> InsertAccessors_cli(table),
     again |-> NoText]

(***************************************************************************)
(* SpecGen: tableProcessing and the synthesis applied to bounded inputs    *)
(***************************************************************************)
MaxCols == 2                     \* most columns of a table handed to the synthesis

ColumnName(k) == "c" \o ToString(k)

\* every table t1 of schema s with 1..MaxCols columns, column k drawn from choice[k]
TablesOf(choice) ==
    LET all(n) == UNION {choice[k] : k \in 1..n}
    IN  UNION {{Table("t1", "s", columns) :
                    columns \in {f \in [1..n -> all(n)] : \A k \in 1..n : f[k] \in choice[k]}} :
               n \in 1..MaxCols}

\* what the catalog can say of a column's default and identity
CatalogDefaults ==
    {[defaultValue |-> d, isIdentity |-> FALSE, identityGeneration |-> NullStr] :
         d \in {Null, NowDefault, NextvalDefault}}
    \cup {[defaultValue |-> Null, isIdentity |-> TRUE, identityGeneration |-> g] :
              g \in {"ALWAYS", "BY DEFAULT"}}

DefaultChoice(k) ==
    {Column(ColumnName(k), k, p.defaultValue, FALSE, Int4, p.isIdentity, p.identityGeneration,
            k = 1, FALSE, FALSE, Undefined, Undefined, Undefined) : p \in CatalogDefaults}

TypeChoice(k) ==
    {Column(ColumnName(k), k, Null, FALSE, type, FALSE, NullStr,
            k = 1, FALSE, FALSE, Undefined, Undefined, Undefined) :
         type \in {Int4, StatusType, UserStatusType}}

ForeignChoice(k) ==
    {Column(ColumnName(k), k, Null, FALSE, Int4, FALSE, NullStr,
            FALSE, FALSE, FALSE, Undefined, Undefined, Undefined)}
    \cup {Column(ColumnName(k), k, d, nullable, Int4, FALSE, NullStr,
                 FALSE, FALSE, TRUE, schema, table, "id") :
              d \in {Null, NowDefault}, nullable \in BOOLEAN,
              schema \in {"s", "p"}, table \in {"t1", "t2"}}

StatusEnum == Enum(StatusType, <<"active", "inactive">>)
UserStatusEnum == Enum(UserStatusType, <<"new", "old", "gone">>)

EnumLists ==
    {<<>>, <<StatusEnum>>, <<UserStatusEnum>>,
     <<StatusEnum, UserStatusEnum>>, <<UserStatusEnum, StatusEnum>>}

\* the tables of an ERD file: column k of table t1 in schema s
ErdColumnChoice(k) ==
    {[name |-> ColumnName(k), cltype |-> cltype, attnotnull |-> TRUE, defval |-> defval,
      colconstype |-> colconstype, attidentity |-> attidentity] :
         cltype \in {Integer, Serial},
         defval \in {EmptyString, NowDefault},
         colconstype \in {"n", "i"},
         attidentity \in {"a", "b", ""}}

\* tables of plain integer columns with every shape of key: no primary key,
\* one of one column, one of all columns; with or without a foreign key and
\* a unique constraint on the last column
ErdKeyedTables ==
    UNION {[name : {"t1"}, schema : {"s"},
            columns : {[k \in 1..n |-> [name |-> ColumnName(k), cltype |-> Integer,
                                        attnotnull |-> TRUE, defval |-> EmptyString,
                                        colconstype |-> "n", attidentity |-> ""]]},
            primary_key : {<<>>, <<[columns |-> <<[column |-> ColumnName(1)]>>]>>,
                           <<[columns |-> [c \in 1..n |-> [column |-> ColumnName(c)]]]>>},
            foreign_key : {<<>>,
                           <<[columns |-> <<[local_column |-> ColumnName(n),
                                             references_table_name |-> <<"(", "p", ")", " ", "t2">>,
                                             referenced |-> "id"]>>]>>},
            unique_constraint : {<<>>, <<[columns |-> <<[column |-> ColumnName(n)]>>]>>}] :
           n \in 1..MaxCols}

ErdTables ==
    LET all(n) == UNION {ErdColumnChoice(k) : k \in 1..n}
    IN  ErdKeyedTables \cup
        UNION {[name : {"t1"}, schema : {"s"},
                columns : {f \in [1..n -> all(n)] : \A k \in 1..n : f[k] \in ErdColumnChoice(k)},
                primary_key : {<<>>, <<[columns |-> <<[column |-> ColumnName(1)]>>]>>},
                foreign_key : {<<>>,
                               <<[columns |-> <<[local_column |-> ColumnName(n),
                                                 references_table_name |-> <<"(", "p", ")", " ", "t2">>,
                                                 referenced |-> "id"]>>]>>},
                unique_constraint : {<<>>}] :
               n \in 1..MaxCols}

\* the files handed to getRelationshipsAndTables: ERD files of one table
\* with one column, and files that are not ERD files
ErdFiles ==
    {[head |-> VersionHead, nodes |-> <<data>>] : data \in {t \in ErdTables : Len(t.columns) = 1}}
    \cup {[head |-> head, nodes |-> <<>>] : head \in {"[", "{\"tables\":"}}

InitGen ==
    /\ CombIdle
    /\ RunIdle
    /\ genUnit = NoUnit
    /\ \/ /\ genPc = "file"
          /\ genCall \in {[fn |-> "getRelationshipsAndTables", json |-> json] : json \in ErdFiles}
          /\ genErd = NoErd
          /\ genTable = NoTable
          /\ genEnums = <<>>
       \/ /\ genPc = "model"
          /\ genCall = NoCall
          /\ genErd = NoErd
          /\ \/ genTable \in TablesOf([k \in 1..MaxCols |-> DefaultChoice(k)]) /\ genEnums = <<>>
             \/ genTable \in TablesOf([k \in 1..MaxCols |-> TypeChoice(k)]) /\ genEnums \in EnumLists
             \/ genTable \in TablesOf([k \in 1..MaxCols |-> ForeignChoice(k)]) /\ genEnums = <<>>
       \/ /\ genPc = "erd"
          /\ genCall = NoCall
          /\ genErd \in ErdTables
          /\ genTable = NoTable
          /\ genEnums = <<>>

\* getRelationshipsAndTables reads the file; its first table goes to
\* tableProcessing
ParseErdFile ==
    /\ genPc = "file"
    /\ LET read == getRelationshipsAndTables(genCall.json)
       IN  /\ genCall' = [fn |-> "getRelationshipsAndTables", json |-> genCall.json,
                          outcome |-> read.outcome, value |-> read.value]
           /\ IF read.outcome = "returned" /\ ~IsPigeonError(read.value)
              THEN genErd' = read.value.tables[1] /\ genPc' = "erd"
              ELSE genErd' = genErd /\ genPc' = "rejected"
    /\ UNCHANGED <<genTable, genEnums, genUnit, combVars, runVars>>

\* tableProcessing turns the ERD table into the Table handed to runGeneration
TableProcessing ==
    /\ genPc = "erd"
    /\ IF ErdThrows(genErd)
       THEN /\ genPc' = "thrown"
            /\ UNCHANGED genTable
       ELSE /\ genTable' = tableProcessing(genErd)
            /\ genPc' = "model"
    /\ UNCHANGED <<genErd, genEnums, genUnit, genCall, combVars, runVars>>

\* the body of runGeneration's loop for the table
Synthesize ==
    /\ genPc = "model"
    /\ genUnit' = GenerateUnit(genTable, genEnums)
    /\ genTable' = [genTable EXCEPT !.columns = ColumnsAfterGeneration(genTable)]
    /\ genPc' = "unit"
    /\ UNCHANGED <<genErd, genEnums, genCall, combVars, runVars>>

\* the body of the earlier runGeneration's loop for the table
Synthesize_cli ==
    /\ genPc = "model"
    /\ genUnit' = GenerateUnit_cli(genTable)
    /\ genPc' = "unit"
    /\ UNCHANGED <<genErd, genTable, genEnums, genCall, combVars, runVars>>

\* the resolver applied to the text it produced
ResolveAgain ==
    /\ genPc = "unit"
    /\ genUnit.kind = "unit_cli"
    /\ genUnit' = [genUnit EXCEPT !.again = ResolveImports(genUnit.text)]
    /\ genPc' = "resolved"
    /\ UNCHANGED <<genErd, genTable, genEnums, genCall, combVars, runVars>>

\* a second run of the loop body for the table, on the model as the first
\* run left it
Regenerate ==
    /\ genPc = "unit"
    /\ genUnit.kind = "unit"
    /\ genCall' = [fn |-> "runGeneration", unit |-> GenerateUnit(genTable, genEnums)]
    /\ genTable' = [genTable EXCEPT !.columns = ColumnsAfterGeneration(genTable)]
    /\ genPc' = "regenerated"
    /\ UNCHANGED <<genErd, genEnums, genUnit, combVars, runVars>>

NextGen ==
    \/ ParseErdFile \/ TableProcessing
    \/ Synthesize \/ Synthesize_cli \/ ResolveAgain \/ Regenerate

SpecGen == InitGen /\ [][NextGen]_vars

(***************************************************************************)
(* The generated insert and update accessors, run on an argument object.   *)
(* What a run does is the trace of its lookups, its throw and its write.   *)
(***************************************************************************)
Absent == "absent"              \* the key is not in the object
Known == "known"                \* a value the referenced table can hold
Unknown == "unknown"            \* a value the referenced table does not hold

ArgumentValues == {Absent, Undefined, NullStr, Known, Unknown}

\* value !== undefined, for a key that may be missing
Defined(value) == value # Absent /\ value # Undefined

\* the condition the text puts around a check
GuardPasses(guard, value) ==
    IF guard = "always" THEN TRUE
    ELSE IF guard = "defined" THEN Defined(value)
    ELSE Defined(value) /\ value # NullStr

\* get<ForeignTable>({<foreignColumn>: value}).length !== 0: createGet leaves
\* an undefined criterion out of WHERE and so selects every row; "=" with
\* null selects none
LookupFinds(value, rows) ==
    IF Defined(value) THEN value \in rows ELSE rows # {}

\* A bug that would go on after a check that found no row.
RunChecks_NoThrow(checks, object, rows, trace) ==
    [trace |-> trace \o [k \in 1..Len(checks) |->
                            [op |-> "lookup", column |-> checks[k].column,
                             accessor |-> checks[k].accessor, value |-> object[checks[k].column]]],
     thrown |-> FALSE]

\* the checks in text order: a check whose condition passes looks the value up
\* and throws when no row comes back
RECURSIVE RunChecks(_, _, _, _)
RunChecks(checks, object, rows, trace) ==
    IF checks = <<>> THEN [trace |-> trace, thrown |-> FALSE]
    ELSE LET check == Head(checks)
             value == object[check.column]
             looked == Append(trace, [op |-> "lookup", column |-> check.column,
                                      accessor |-> check.accessor, value |-> value])
         IN  IF ~GuardPasses(check.guard, value)
             THEN RunChecks(Tail(checks), object, rows, trace)
             ELSE IF LookupFinds(value, rows)
             THEN RunChecks(Tail(checks), object, rows, looked)
             ELSE [trace |-> Append(looked, [op |-> "throw",
                                             message |-> "The column provided does not exist."]),
                   thrown |-> TRUE]

ColumnNames(columns) == [k \in 1..Len(columns) |-> columns[k].name]

\* for (const key in object) ... if (value !== undefined): the keys with a
\* defined value (in the order of the columns)
DefinedKeys(columns, object) ==
    SelectSeq(ColumnNames(columns), LAMBDA name : Defined(object[name]))

\* the body of the generated add<Table>
RunAdd(unit, columns, object, rows) ==
    LET checked == RunChecks(unit.add.checks, object, rows, <<>>)
        intoClauses == DefinedKeys(columns, object)
    IN  IF checked.thrown THEN [trace |-> checked.trace, outcome |-> "thrown"]
        ELSE IF Len(intoClauses) = 0
        THEN [trace |-> Append(checked.trace, [op |-> "throw", message |-> "No data provided."]),
              outcome |-> "thrown"]
        ELSE [trace |-> Append(checked.trace, [op |-> "write", statement |-> "INSERT",
                                               set |-> intoClauses, where |-> <<>>]),
              outcome |-> "returned"]

\* A bug that would number every clause of a loop with the index the loop
\* started with.
ClauseLoop_SharedIndex(keys, object, acc) ==
    LET defined == SelectSeq(keys, LAMBDA key : Defined(object[key]))
    IN  [clauses |-> acc.clauses \o [n \in 1..Len(defined) |->
                                        [key |-> defined[n], placeholder |-> acc.paramIndex]],
         values |-> acc.values \o [n \in 1..Len(defined) |-> object[defined[n]]],
         paramIndex |-> acc.paramIndex]

\* for (const key in object) if (value !== undefined) { values.push(value);
\* clauses.push(key = $paramIndex); paramIndex++ }
RECURSIVE ClauseLoop(_, _, _)
ClauseLoop(keys, object, acc) ==
    IF keys = <<>> THEN acc
    ELSE LET key == Head(keys)
         IN  IF Defined(object[key])
             THEN ClauseLoop(Tail(keys), object,
                             [clauses |-> Append(acc.clauses, [key |-> key, placeholder |-> acc.paramIndex]),
                              values |-> Append(acc.values, object[key]),
                              paramIndex |-> acc.paramIndex + 1])
             ELSE ClauseLoop(Tail(keys), object, acc)

\* const clauses = []; const values = []; let paramIndex = 1
NoClauses == [clauses |-> <<>>, values |-> <<>>, paramIndex |-> 1]

\* the body of the generated update<Table>
RunUpdate(unit, columns, criteria, updates, rows) ==
    LET checked == RunChecks(unit.update.checks, updates, rows, <<>>)
        setClauses == DefinedKeys(columns, updates)
        whereClauses == DefinedKeys(columns, criteria)
        setLoop == ClauseLoop(ColumnNames(columns), updates, NoClauses)
        whereLoop == ClauseLoop(ColumnNames(columns), criteria,
                                [setLoop EXCEPT !.clauses = <<>>])
    IN  IF \A k \in 1..Len(columns) : updates[columns[k].name] = Absent
        THEN [trace |-> <<[op |-> "throw", message |-> "No update data provided."]>>,
              outcome |-> "thrown"]
        ELSE IF checked.thrown THEN [trace |-> checked.trace, outcome |-> "thrown"]
        ELSE [trace |-> Append(checked.trace, [op |-> "write", statement |-> "UPDATE",
                                               set |-> setClauses, where |-> whereClauses,
                                               setParams |-> setLoop.clauses,
                                               whereParams |-> whereLoop.clauses,
                                               values |-> whereLoop.values]),
              outcome |-> "returned"]

\* the body of the generated get<Table> ("SELECT") and delete<Table>
\* ("DELETE"): the WHERE loop over criteria, then the statement
RunCriteria(statement, columns, criteria) ==
    LET whereLoop == ClauseLoop(ColumnNames(columns), criteria, NoClauses)
    IN  [trace |-> <<[op |-> IF statement = "SELECT" THEN "read" ELSE "write",
                      statement |-> statement,
                      set |-> <<>>, where |-> DefinedKeys(columns, criteria),
                      setParams |-> <<>>,
                      whereParams |-> whereLoop.clauses,
                      values |-> whereLoop.values]>>,
         outcome |-> "returned"]

\* the argument objects over the columns of a table
Objects(columns) == [{columns[k].name : k \in 1..Len(columns)} -> ArgumentValues]

NoObject(columns) == [name \in {columns[k].name : k \in 1..Len(columns)} |-> Absent]

\* the criteria of an update: none, or the first column
Criterias(columns) ==
    {NoObject(columns), [NoObject(columns) EXCEPT ![columns[1].name] = Known]}

\* what a referenced table holds: the known row or nothing
ForeignRows == {{}, {Known}}

\* the columns of the tables whose accessors are run: no foreign key, or one
\* to the table itself or to another table
CallChoice(k) ==
    {Column(ColumnName(k), k, Null, FALSE, Int4, FALSE, NullStr,
            k = 1, FALSE, FALSE, Undefined, Undefined, Undefined)}
    \cup {Column(ColumnName(k), k, d, nullable, Int4, FALSE, NullStr,
                 FALSE, FALSE, TRUE, "s", table, "id") :
              d \in {Null, NowDefault}, nullable \in BOOLEAN, table \in {"t1", "t2"}}

InitCall ==
    /\ CombIdle
    /\ RunIdle
    /\ genErd = NoErd
    /\ genTable \in TablesOf([k \in 1..MaxCols |-> CallChoice(k)])
    /\ genEnums = <<>>
    /\ genUnit = NoUnit
    /\ genPc = "model"
    /\ genCall = NoCall

\* a caller inserts an object with the generated add<Table>
CallAdd ==
    /\ genPc = "unit"
    /\ genUnit.kind = "unit"
    /\ \E object \in Objects(genTable.columns), rows \in ForeignRows :
           LET run == RunAdd(genUnit, genTable.columns, object, rows)
           IN  genCall' = [fn |-> "add", object |-> object, criteria |-> NoObject(genTable.columns),
                           rows |-> rows, trace |-> run.trace, outcome |-> run.outcome]
    /\ genPc' = "called"
    /\ UNCHANGED <<genErd, genTable, genEnums, genUnit, combVars, runVars>>

\* a caller updates rows with the generated update<Table>
CallUpdate ==
    /\ genPc = "unit"
    /\ genUnit.kind = "unit"
    /\ \E updates \in Objects(genTable.columns), criteria \in Criterias(genTable.columns),
          rows \in ForeignRows :
           LET run == RunUpdate(genUnit, genTable.columns, criteria, updates, rows)
           IN  genCall' = [fn |-> "update", object |-> updates, criteria |-> criteria,
                           rows |-> rows, trace |-> run.trace, outcome |-> run.outcome]
    /\ genPc' = "called"
    /\ UNCHANGED <<genErd, genTable, genEnums, genUnit, combVars, runVars>>

\* a caller selects or deletes rows with the generated get<Table> or
\* delete<Table>
CallCriteria ==
    /\ genPc = "unit"
    /\ genUnit.kind = "unit"
    /\ \E criteria \in Objects(genTable.columns), statement \in {"SELECT", "DELETE"} :
           LET run == RunCriteria(statement, genTable.columns, criteria)
           IN  genCall' = [fn |-> IF statement = "SELECT" THEN "get" ELSE "delete",
                           object |-> NoObject(genTable.columns), criteria |-> criteria,
                           rows |-> {}, trace |-> run.trace, outcome |-> run.outcome]
    /\ genPc' = "called"
    /\ UNCHANGED <<genErd, genTable, genEnums, genUnit, combVars, runVars>>

NextCall == Synthesize \/ CallAdd \/ CallUpdate \/ CallCriteria

SpecCall == InitCall /\ [][NextCall]_vars

(***************************************************************************)
(* SpecType: getType and nameBeautifier (utils.ts) applied to bounded      *)
(* pairs of data_type and udt_name. Names are sequences of characters.     *)
(***************************************************************************)
MaxName == 3                        \* most characters of a type name

NameChars == {"_", "i", "d"}

ArrayType == <<"A", "R", "R", "A", "Y">>
UserDefined == <<"U", "S", "E", "R", "-", "D", "E", "F", "I", "N", "E", "D">>

TypeError == [kind |-> "TypeError"]

\* the map from native type names to target types (a target type is a
\* sequence of characters, a mapped one kept whole)
types == (Integer :> <<"number">>) @@ (Int4 :> <<"number">>) @@ (Text :> <<"string">>)

\* name.split("_"): the words between the underscores, empty ones included
RECURSIVE Split(_, _)
Split(name, word) ==
    IF name = <<>> THEN <<word>>
    ELSE IF Head(name) = "_" THEN <<word>> \o Split(Tail(name), <<>>)
    ELSE Split(Tail(name), Append(word, Head(name)))

toUpperCase(c) ==
    IF c = "i" THEN "I" ELSE IF c = "d" THEN "D" ELSE c

\* word[0].toUpperCase() + word.substring(1), and "Id" written "ID"
Capitalize(word) ==
    LET capital == <<toUpperCase(word[1])>> \o Tail(word)
    IN  IF capital = <<"I", "d">> THEN <<"I", "D">> ELSE capital

RECURSIVE JoinWords(_)
JoinWords(words) ==
    IF words = <<>> THEN <<>>
    ELSE IF Len(words) = 1 THEN Capitalize(words[1])
    ELSE Capitalize(words[1]) \o <<" ">> \o JoinWords(Tail(words))

\* nameBeautifier: word[0] of an empty word is undefined and
\* undefined.toUpperCase() is a TypeError
nameBeautifier(name) ==
    LET words == Split(name, <<>>)
    IN  IF \E k \in 1..Len(words) : words[k] = <<>> THEN TypeError
        ELSE [kind |-> "string", value |-> JoinWords(words)]

\* replaceAll(" ", "")
RemoveSpaces(text) == SelectSeq(text, LAMBDA c : c # " ")

getType(dataType, udtName) ==
    LET isArray == dataType = ArrayType
        key == IF isArray THEN Tail(udtName) ELSE dataType
        beautified == nameBeautifier(udtName)
    IN  IF key \in DOMAIN types
        THEN [kind |-> "type", name |-> types[key], isArray |-> isArray]
        ELSE IF beautified.kind = "TypeError" THEN TypeError
        ELSE [kind |-> "type", name |-> RemoveSpaces(beautified.value), isArray |-> isArray]

\* the names of user-defined types
TypeNames == UNION {[1..n -> NameChars] : n \in 1..MaxName}

\* the (data_type, udt_name) pairs the catalog gives: a built-in type, a
\* user-defined type, or an array, whose udt_name is "_" and the element's name
TypePairs ==
    {<<Integer, Int4>>, <<Text, Text>>}
    \cup {<<UserDefined, name>> : name \in TypeNames}
    \cup {<<ArrayType, <<"_">> \o name>> : name \in TypeNames \cup {Int4, Text}}

InitType ==
    /\ CombIdle
    /\ RunIdle
    /\ genErd = NoErd
    /\ genTable = NoTable
    /\ genEnums = <<>>
    /\ genUnit = NoUnit
    /\ genPc = "type"
    /\ \E pair \in TypePairs :
           genCall = [fn |-> "getType", dataType |-> pair[1], udtName |-> pair[2]]

CallGetType ==
    /\ genPc = "type"
    /\ genCall' = [fn |-> "getType", dataType |-> genCall.dataType, udtName |-> genCall.udtName,
                   result |-> getType(genCall.dataType, genCall.udtName)]
    /\ genPc' = "typed"
    /\ UNCHANGED <<genErd, genTable, genEnums, genUnit, combVars, runVars>>

NextType == CallGetType

SpecType == InitType /\ [][NextType]_vars

(***************************************************************************)
(* SpecComb: getCombinations applied to every bounded list                 *)
(***************************************************************************)
InitComb ==
    /\ valuesArray \in SeqsUpTo(KeyValues, MaxLen)
    /\ combinations = <<>>
    /\ combPc = "ready"
    /\ RunIdle
    /\ GenIdle

CallGetCombinations ==
    /\ combPc = "ready"
    /\ combinations' = getCombinations(valuesArray)
    /\ combPc' = "returned"
    /\ UNCHANGED <<valuesArray, runVars, genVars>>

NextComb == CallGetCombinations

SpecComb == InitComb /\ [][NextComb]_vars

\* C1: for every input list of n values getCombinations returns exactly
\* 2^n - 1 subsets, none of them empty, in non-decreasing order of size.
CombinationsCountAndOrder ==
    combPc = "returned" =>
        /\ Len(combinations) = Pow2(Len(valuesArray)) - 1
        /\ \A k \in 1..Len(combinations) : Len(combinations[k]) > 0
        /\ \A k \in 1..Len(combinations) - 1 :
               Len(combinations[k]) <= Len(combinations[k + 1])

\* Witness of C1: a list of three values was combined into seven subsets.
CombinationsCountWitness ==
    /\ combPc = "returned"
    /\ Len(valuesArray) = 3
    /\ Len(combinations) = 7

\* The index sets chosen from 1..n, as strictly increasing index sequences.
IsSubsequenceOf(sub, values) ==
    \E idx \in [1..Len(sub) -> 1..Len(values)] :
        /\ \A k \in 1..Len(sub) - 1 : idx[k] < idx[k + 1]
        /\ \A k \in 1..Len(sub) : sub[k] = values[idx[k]]

\* C2: for a list of distinct values every non-empty subset of the input is
\* returned exactly once, and each returned subset keeps the input's
\* relative order of elements.
CombinationsEachSubsetOnce ==
    (combPc = "returned" /\ IsInjective(valuesArray)) =>
        /\ \A S \in (SUBSET Range(valuesArray)) \ {{}} :
               Cardinality({k \in 1..Len(combinations) : Range(combinations[k]) = S}) = 1
        /\ \A k \in 1..Len(combinations) :
               /\ IsInjective(combinations[k])
               /\ IsSubsequenceOf(combinations[k], valuesArray)

\* Witness of C2: three distinct values, and the subset {first, third} is
\* returned in input order.
CombinationsSubsetWitness ==
    /\ combPc = "returned"
    /\ Len(valuesArray) = 3
    /\ IsInjective(valuesArray)
    /\ \E k \in 1..Len(combinations) : combinations[k] = <<valuesArray[1], valuesArray[3]>>

(***************************************************************************)
(* Claims about one invocation (Spec)                                      *)
(***************************************************************************)
StrictlyIncreasing(s) == \A k \in 1..Len(s) - 1 : s[k] < s[k + 1]

\* the ordinal position the catalog gives a column of a table
CatalogPosition(schema, name, columnName) ==
    LET table == CHOOSE t \in Range(catalog.tables) :
                     t.table_schema = schema /\ t.table_name = name
        row == CHOOSE r \in Range(table.rows) : r.column_name = columnName
    IN  row.ordinal_position

\* C3: whatever order the catalog returns the column rows in, the fields and
\* the constructor parameters of every written value class are in strictly
\* increasing ordinal position.
ClassFieldsInOrdinalOrder ==
    \A path \in DOMAIN outFiles :
        outFiles[path].kind = "unit" =>
            LET unit == outFiles[path]
                positions(names) ==
                    [k \in 1..Len(names) |-> CatalogPosition(unit.schema, unit.name, names[k])]
            IN  /\ StrictlyIncreasing(positions(unit.class.fields))
                /\ StrictlyIncreasing(positions(unit.class.ctor))

\* the value queryDB returned holds every table, every column and every enum
\* of the catalog
CompleteModel(model) ==
    /\ model.kind = "model"
    /\ Len(model.tables) = Len(catalog.tables)
    /\ \A k \in 1..Len(model.tables) :
           /\ model.tables[k].name = catalog.tables[k].table_name
           /\ model.tables[k].schema = catalog.tables[k].table_schema
           /\ Len(model.tables[k].columns) = Len(catalog.tables[k].rows)
           /\ {c.name : c \in Range(model.tables[k].columns)} =
                  {r.column_name : r \in Range(catalog.tables[k].rows)}
    /\ Len(model.enums) = Len(catalog.types)
    /\ \A i \in 1..Len(model.enums) :
           /\ model.enums[i].name = catalog.types[i].typname
           /\ model.enums[i].labels = catalog.types[i].labels

\* C4: when a catalog query fails, also after earlier tables were assembled,
\* queryDB returns one PigeonError; what it returns otherwise is never a part
\* of the schema.
QueryDBBuildsOrAborts ==
    /\ qLast = QueryUndefined =>
           /\ pc # "queryDB"
           /\ IsPigeonError(queryResult)
           /\ queryResult.exitCode = 1
    /\ (pc \in {"afterGuided", "afterQuery"} /\ ~IsPigeonError(queryResult)) =>
           CompleteModel(queryResult)

\* Witness of C4: a query failed after a table had been assembled, and
\* queryDB returned the error.
QueryFailedAfterTableWitness ==
    /\ qLast = QueryUndefined
    /\ Len(qTables) >= 1
    /\ queryResult = SqlError

\* C5: with zero tables runGeneration returns a PigeonError with exit code 1,
\* creates no directory and writes no file.
NoTablesNoOutput ==
    [][(pc = "afterQuery" /\ queryResult.kind = "model" /\ Len(queryResult.tables) = 0) =>
           /\ IsPigeonError(result')
           /\ result'.exitCode = 1
           /\ outDirs' = outDirs
           /\ outFiles' = outFiles]_vars

\* Witness of C5: runGeneration was called with no table where no output
\* directory existed, and none exists after it.
NoTablesWitness ==
    /\ pc = "returned"
    /\ result = NoTablesError
    /\ queryResult.kind = "model"
    /\ outDirs = {}

\* C6: when the output directory exists runGeneration returns a PigeonError
\* with exit code 1 and leaves the directory and its contents as they were.
ExistingOutputUntouched ==
    [][(pc = "afterQuery" /\ queryResult.kind = "model" /\ <<>> \in outDirs) =>
           /\ IsPigeonError(result')
           /\ result'.exitCode = 1
           /\ outDirs' = outDirs
           /\ outFiles' = outFiles]_vars

\* Witness of C6: runGeneration found the directory and tables to generate,
\* returned the error and the old content is still there.
ExistingOutputWitness ==
    /\ pc = "returned"
    /\ result = DirExistsError
    /\ queryResult.kind = "model"
    /\ Len(queryResult.tables) > 0
    /\ outFiles = OldFiles

DetectedConditions ==
    {NoTablesError, DirExistsError, SqlError, ConfigMissingError, ConfigExistsError}

\* C7: a run exits once, with 0 when generation completed without error, 1
\* when it failed on a detected condition, and 2 exactly when an exception
\* escaped run.
ExitStatusClasses ==
    /\ exitCalls <= 1
    /\ pc # "exited" => exitCalls = 0
    /\ pc = "exited" =>
           /\ exitCalls = 1
           /\ exitStatus \in {0, 1, 2}
           /\ result = Void => exitStatus = 0
           /\ result \in DetectedConditions => exitStatus = 1
           /\ exitStatus = 1 => result \in DetectedConditions
           /\ exitStatus = 2 <=> result = Thrown
           /\ exitStatus = 0 => result \in {Void, ConfigCreated}

\* Witness of C7: a run that failed on a catalog query exited with 1.
ExitOnQueryFailureWitness ==
    /\ pc = "exited"
    /\ result = SqlError
    /\ exitStatus = 1

(***************************************************************************)
(* Claims about the synthesis (SpecGen)                                    *)
(***************************************************************************)
DefaultClasses == {"required", "optional", "autoGenerated"}

\* C8: whatever its defaultValue, isIdentity and identityGeneration, every
\* column is in exactly one of required, optional and autoGenerated.
ExactlyOneDefaultClass ==
    genUnit.kind = "unit" =>
        \A k \in 1..Len(genTable.columns) :
            Cardinality({class \in DefaultClasses :
                             genTable.columns[k].name \in Range(genUnit[class])}) = 1

\* the number of declarations of an enum in the unit
DeclarationsOf(enumName) ==
    Cardinality({i \in 1..Len(genUnit.enumDeclarations) :
                     genUnit.enumDeclarations[i].name = enumName})

\* C9: an enum that is the native type of at least one column of the table is
\* declared exactly once in the unit, however many columns use it, with its
\* labels in declaration order.
EnumDeclaredOnce ==
    genUnit.kind = "unit" =>
        \A e \in 1..Len(genEnums) :
            (\E k \in 1..Len(genTable.columns) : genTable.columns[k].pgType = genEnums[e].name) =>
                /\ DeclarationsOf(genEnums[e].name) = 1
                /\ \A i \in 1..Len(genUnit.enumDeclarations) :
                       genUnit.enumDeclarations[i].name = genEnums[e].name =>
                           genUnit.enumDeclarations[i].labels = genEnums[e].labels

\* the tables other than the unit's own that its foreign-key columns reference
ReferencedTables(table) ==
    {<<c.foreignSchema, c.foreignTable>> : c \in {c \in Range(table.columns) : HasForeignTarget(c)}}
        \ {<<table.schema, table.name>>}

\* the module a unit of schema `schema` imports a table from
ModuleOf(schema, target) ==
    IF schema = target[1] THEN <<".", target[2]>> ELSE <<"..", target[1], target[2]>>

\* the modules of the unit's import lines, the pg library apart
ImportedModules ==
    IF genUnit.kind = "unit"
    THEN [i \in 1..Len(genUnit.importLines) |-> genUnit.importLines[i].file]
    ELSE LET lines == SelectSeq(genUnit.text,
                                LAMBDA line : line.kind = "import" /\ line.file # PgImport.file)
         IN  [i \in 1..Len(lines) |-> lines[i].file]

\* C10: the unit imports the accessor module of each referenced foreign table
\* exactly once, also when several foreign-key columns reference it or both
\* the insert and the update accessor need it, and imports no other table's
\* module; in the current runGeneration and in the earlier one with the
\* import resolver.
ForeignModulesImportedOnce ==
    genUnit.kind \in {"unit", "unit_cli"} =>
        /\ \A target \in ReferencedTables(genTable) :
               Cardinality({i \in 1..Len(ImportedModules) :
                                ImportedModules[i] = ModuleOf(genTable.schema, target)}) = 1
        /\ \A i \in 1..Len(ImportedModules) :
               \E target \in ReferencedTables(genTable) :
                   ImportedModules[i] = ModuleOf(genTable.schema, target)

\* Witness of C10: two foreign-key columns reference the same other table and
\* the unit, whose insert and update accessors both check them, has one
\* import line.
SharedImportWitness ==
    /\ genUnit.kind = "unit"
    /\ Len(genTable.columns) = 2
    /\ HasForeignTarget(genTable.columns[1])
    /\ HasForeignTarget(genTable.columns[2])
    /\ ReferencedTables(genTable) = {<<"p", "t2">>}
    /\ Len(genUnit.importLines) = 1
    /\ Len(genUnit.add.checks) = 2
    /\ Len(genUnit.update.checks) = 2

\* C11: the import resolver is idempotent: applied to its own output it
\* gives that output back.
ResolverIdempotent ==
    genPc = "resolved" => genUnit.again = genUnit.text

(***************************************************************************)
(* Claims about the generated accessors (SpecCall)                         *)
(***************************************************************************)
\* the positions of the trace where the column is looked up
LookupsOf(name) ==
    {i \in 1..Len(genCall.trace) :
         genCall.trace[i].op = "lookup" /\ genCall.trace[i].column = name}

Writes == {i \in 1..Len(genCall.trace) : genCall.trace[i].op = "write"}

\* C12: the insert accessor looks a nullable foreign-key column up only when
\* a value is supplied for it: when the column is omitted, undefined or null
\* no lookup of the referenced table is made for it.
NullableForeignKeyGuarded ==
    genCall.fn = "add" =>
        \A k \in 1..Len(genTable.columns) :
            LET column == genTable.columns[k]
            IN  /\ column.isForeign
                /\ column.isNullable
                /\ genCall.object[column.name] \in {Absent, Undefined, NullStr}
                => LookupsOf(column.name) = {}

\* Witness of C12: an insert leaves one nullable foreign-key column null and
\* supplies the other, which alone is looked up before the INSERT.
GuardedCheckWitness ==
    /\ genCall.fn = "add"
    /\ Len(genTable.columns) = 2
    /\ \A k \in 1..2 : genTable.columns[k].isForeign /\ genTable.columns[k].isNullable
    /\ \A k \in 1..2 : genTable.columns[k].foreignTable = "t2"
    /\ genCall.object["c1"] = NullStr
    /\ genCall.object["c2"] = Known
    /\ LookupsOf("c1") = {}
    /\ LookupsOf("c2") # {}
    /\ genCall.outcome = "returned"

\* C13: in every insert and update accessor all foreign-key lookups come
\* before the INSERT or UPDATE, and a lookup that finds no row throws: no
\* write follows it.
ChecksBeforeWrite ==
    genCall.fn \in {"add", "update"} =>
        /\ \A i \in 1..Len(genCall.trace) :
               genCall.trace[i].op = "lookup" => \A j \in Writes : i < j
        /\ (\E i \in 1..Len(genCall.trace) :
                /\ genCall.trace[i].op = "lookup"
                /\ ~LookupFinds(genCall.trace[i].value, genCall.rows))
           => genCall.outcome = "thrown" /\ Writes = {}

\* Witness of C13: an update changes two foreign-key columns, the first
\* lookup finds its row, the second finds none, and the accessor throws
\* without an UPDATE.
FailedCheckWitness ==
    /\ genCall.fn = "update"
    /\ Len(genTable.columns) = 2
    /\ genCall.object["c1"] = Known
    /\ genCall.object["c2"] = Unknown
    /\ genCall.rows = {Known}
    /\ LookupsOf("c1") # {}
    /\ LookupsOf("c2") # {}
    /\ genCall.outcome = "thrown"
    /\ Writes = {}

\* C14: the SET clause of the update accessor holds exactly the fields the
\* caller supplied in updates, and every foreign-key column that is being
\* changed (to a value, for a nullable column to a value other than null) is
\* looked up before the UPDATE.
UpdateSetsSuppliedAndValidates ==
    genCall.fn = "update" =>
        \A j \in Writes :
            /\ Range(genCall.trace[j].set) =
                   {genTable.columns[k].name : k \in
                        {k \in 1..Len(genTable.columns) :
                             Defined(genCall.object[genTable.columns[k].name])}}
            /\ \A k \in 1..Len(genTable.columns) :
                   LET column == genTable.columns[k]
                   IN  /\ HasForeignTarget(column)
                       /\ Defined(genCall.object[column.name])
                       /\ genCall.object[column.name] # NullStr
                       => \E i \in LookupsOf(column.name) : i < j

(***************************************************************************)
(* Claims about the schema model during the synthesis (SpecGen)            *)
(***************************************************************************)
\* C15: runGeneration only reads the schema model: the step that generates
\* the unit of a table leaves the table, the sequence of its columns, every
\* field of every column and the enums as they were.
GenerationReadsModel ==
    [][(genPc = "model" /\ genPc' = "unit") => (genTable' = genTable /\ genEnums' = genEnums)]_vars

\* Witness of C15: the unit is generated for a table whose columns getTypecast
\* orders differently (int4 before st) and the table still has c1 first.
ModelKeptWitness ==
    /\ genPc = "unit"
    /\ genUnit.kind = "unit"
    /\ Len(genTable.columns) = 2
    /\ genTable.columns[1].name = "c1"
    /\ genTable.columns[1].pgType = StatusType
    /\ genTable.columns[2].pgType = Int4
    /\ genUnit.getTypecast[1].case = "c2"

GetTypeTotal ==
    genPc = "typed" =>
        /\ genCall.result # TypeError
        /\ genCall.result.isArray = (genCall.dataType = ArrayType)
        /\ LET key == IF genCall.dataType = ArrayType THEN Tail(genCall.udtName)
                      ELSE genCall.dataType
           IN  key \in DOMAIN types => genCall.result.name = types[key]

(***************************************************************************)
(* Claims about the ERD file path (SpecGen)                                *)
(***************************************************************************)
\* C18: a file that is not a pgAdmin ERD file is reported as a PigeonError
\* with exit code 1 that getRelationshipsAndTables returns, not throws, and
\* no synthesis starts.
MalformedErdReturned ==
    (genCall.fn = "getRelationshipsAndTables" /\ genPc # "file"
        /\ genCall.json.head # VersionHead) =>
        /\ genCall.outcome = "returned"
        /\ IsPigeonError(genCall.value)
        /\ genCall.value.exitCode = 1
        /\ genUnit = NoUnit

(***************************************************************************)
(* Claims about the order of a run (Spec)                                  *)
(***************************************************************************)
\* the step creates a directory or writes a file
WritesOutput ==
    \/ outDirs' \ outDirs # {}
    \/ \E path \in DOMAIN outFiles' :
           path \notin DOMAIN outFiles \/ outFiles'[path] # outFiles[path]

\* C19: every catalog query has completed, and successfully, before the
\* synthesis begins: a directory or a unit is written only by the step that
\* follows the return of queryDB with the whole model, and run returns with
\* that step, so that no query is issued after it.
QueriesBeforeSynthesis ==
    [][WritesOutput =>
           /\ pc = "afterQuery"
           /\ qStep = "none"
           /\ CompleteModel(queryResult)
           /\ pc' = "returned"]_vars

\* Witness of C19: a guided run has queried the database twice over, each
\* time for both tables, and then written both units.
GeneratedAfterQueriesWitness ==
    /\ pc = "returned"
    /\ flags.guided
    /\ result = Void
    /\ Len(catalog.tables) = 2
    /\ \A k \in 1..2 :
           <<catalog.tables[k].table_schema, catalog.tables[k].table_name>> \in DOMAIN outFiles

(***************************************************************************)
(* Claims about the ERD file path (SpecGen)                                *)
(***************************************************************************)
\* C20: for the same schema tableProcessing produces the Table that queryDB
\* produces: it returns one, and each column has the same name, position,
\* isPrimary, isUnique, isForeign and foreign coordinates, also when the
\* primary key is composite or absent.
ErdSameAsCatalog ==
    (genErd # NoErd /\ genPc \in {"model", "thrown"}) =>
        /\ genPc = "model"
        /\ KeyModel(genTable) = KeyModel(queryDBTable(genErd))

(***************************************************************************)
(* Claims about what a run leaves behind (Spec)                            *)
(***************************************************************************)
\* C21: generation is all-or-nothing: the output location is changed by no
\* step of a run that ends with an error, so that it then holds what it held
\* before the invocation; the only step that changes it is the one with which
\* run returns without an error. This also with --force.
AllOrNothing ==
    [][(outDirs' # outDirs \/ outFiles' # outFiles) =>
           (pc' = "returned" /\ result' = Void)]_vars

(***************************************************************************)
(* Claims about the earlier runGeneration (SpecGen)                        *)
(***************************************************************************)
\* C22: for a table with k soft-default columns the unit has exactly 2^k
\* insert accessors, one per subset of the soft-default columns (the empty
\* one included, none twice), each taking every required column and exactly
\* the chosen soft-default columns, in ordinal order.
InsertAccessorPerSubset ==
    genUnit.kind = "unit_cli" =>
        LET required == Range(ColumnNames(ColumnsOfClass(genTable.columns, "required")))
            soft == Range(ColumnNames(ColumnsOfClass(genTable.columns, "optional")))
            adds == genUnit.adds
            names(add) == {add.params[k].name : k \in 1..Len(add.params)}
        IN  /\ Len(adds) = Pow2(Cardinality(soft))
            /\ {names(adds[i]) : i \in 1..Len(adds)} = {required \cup chosen : chosen \in SUBSET soft}
            /\ \A i, j \in 1..Len(adds) : names(adds[i]) = names(adds[j]) => i = j
            /\ \A i \in 1..Len(adds) :
                   /\ Range(adds[i].soft) = names(adds[i]) \ required
                   /\ Len(adds[i].params) = Cardinality(names(adds[i]))
                   /\ StrictlyIncreasing([k \in 1..Len(adds[i].params) |-> adds[i].params[k].position])

\* Witness of C22: a table of two soft-default columns has its unit, with
\* the accessor that takes both.
TwoSoftDefaultsWitness ==
    /\ genUnit.kind = "unit_cli"
    /\ Len(genTable.columns) = 2
    /\ Len(ColumnsOfClass(genTable.columns, "optional")) = 2
    /\ Len(genUnit.adds) = 4
    /\ \E i \in 1..4 : Len(genUnit.adds[i].params) = 2

\* C23: the resolved text is one import line per source module and style,
\* each with a duplicate-free symbol list that holds what the unit imported
\* from that module, then the import of the database client, then the body,
\* in which no import line is left.
ImportsConsolidated ==
    genUnit.kind = "unit_cli" =>
        LET text == genUnit.text
            before == genUnit.unresolved
            symbolsOf(file, brackets) ==
                UNION {Range(before[k].functions) :
                           k \in {i \in 1..Len(before) :
                                      /\ before[i].kind = "import"
                                      /\ before[i].file = file
                                      /\ before[i].brackets = brackets}}
        IN  \E n \in 0..Len(text) :
                /\ Len(text) >= n + 2
                /\ \A i \in 1..n :
                       /\ text[i].kind = "import"
                       /\ IsInjective(text[i].functions)
                       /\ Range(text[i].functions) = symbolsOf(text[i].file, text[i].brackets)
                       /\ \A j \in 1..n :
                              (text[j].file = text[i].file /\ text[j].brackets = text[i].brackets)
                                  => i = j
                /\ \A k \in 1..Len(before) :
                       before[k].kind = "import" =>
                           \E i \in 1..n : text[i].file = before[k].file
                                           /\ text[i].brackets = before[k].brackets
                /\ text[n + 1] = PgImport
                /\ text[n + 2] = CodeLine("Client")
                /\ SubSeq(text, n + 3, Len(text)) = SelectSeq(before, LAMBDA line : line.kind = "code")

\* Witness of C23: a unit whose accessors import from two modules, each of
\* them more than once, is resolved to two import lines.
TwoModulesResolvedWitness ==
    /\ genUnit.kind = "unit_cli"
    /\ Len(genUnit.text) > 4
    /\ genUnit.text[1].kind = "import"
    /\ genUnit.text[2].kind = "import"
    /\ genUnit.text[3] = PgImport
    /\ Len(SelectSeq(genUnit.unresolved, LAMBDA line : line.kind = "import")) > 2

(***************************************************************************)
(* Claims about the insert accessor of a unit (SpecGen)                    *)
(***************************************************************************)
\* C24: the insert accessor has an existence check for every foreign-key
\* column among the columns it accepts (the required and the optional ones),
\* whatever table the column references, its own table included.
InsertChecksEveryForeignKey ==
    genUnit.kind = "unit" =>
        \A k \in 1..Len(genTable.columns) :
            LET column == genTable.columns[k]
            IN  (column.isForeign /\ DefaultClass(column) \in {"required", "optional"}) =>
                    \E c \in 1..Len(genUnit.add.checks) : genUnit.add.checks[c].column = column.name

\* C25: an enum is declared in the unit only if it is the native type of a
\* column of the table (or the element type of an array column): an enum
\* whose name is only a part of a column's type name is not declared.
EnumDeclaredOnlyIfUsed ==
    genUnit.kind = "unit" =>
        \A i \in 1..Len(genUnit.enumDeclarations) :
            \E k \in 1..Len(genTable.columns) :
                \/ genTable.columns[k].pgType = genUnit.enumDeclarations[i].name
                \/ genTable.columns[k].pgType = genUnit.enumDeclarations[i].name \o <<"[", "]">>

(***************************************************************************)
(* Claims about the options of run (Spec)                                  *)
(***************************************************************************)
\* C26: a run with --guided ends without asking for a configuration file
\* (it neither reports one missing nor fails to read one), the database it
\* has queried last is the one entered at the prompt, and what it generated
\* connects to that database.
GuidedUsesEnteredParameters ==
    (flags.guided /\ ~flags.init /\ pc \in {"returned", "thrown"}) =>
        /\ result # ConfigMissingError
        /\ result # Thrown
        /\ database = "guided"
        /\ \A path \in DOMAIN outFiles :
               outFiles[path].kind = "index" => outFiles[path].db = "guided"

(***************************************************************************)
(* Claims about the generated update and insert accessors (SpecCall)       *)
(***************************************************************************)
\* C27: when updates holds no field with a defined value (no key at all, or
\* keys that are all undefined) the update accessor throws "No update data
\* provided." and issues no statement; an UPDATE it issues never has an
\* empty SET clause.
UpdateNeedsData ==
    genCall.fn = "update" =>
        /\ (\A k \in 1..Len(genTable.columns) : ~Defined(genCall.object[genTable.columns[k].name]))
               => /\ Writes = {}
                  /\ genCall.outcome = "thrown"
                  /\ genCall.trace[Len(genCall.trace)] =
                         [op |-> "throw", message |-> "No update data provided."]
        /\ \A j \in Writes : genCall.trace[j].set # <<>>

(***************************************************************************)
(* Claims about the value class and the insert accessor (SpecGen)          *)
(***************************************************************************)
\* C28: the insert accessor hands the constructor of the value class one
\* argument per column of the table, in the order of the constructor's
\* parameters, whatever the classes of the columns.
AddConstructsWholeRow ==
    genUnit.kind = "unit" => genUnit.add.ctorArgs = genUnit.class.ctor

(***************************************************************************)
(* Claims about the statements the accessors issue (SpecCall)              *)
(***************************************************************************)
\* the positions of the trace where get, update or delete issues its statement
Statements ==
    {i \in 1..Len(genCall.trace) :
         /\ genCall.trace[i].op \in {"read", "write"}
         /\ genCall.trace[i].statement \in {"SELECT", "UPDATE", "DELETE"}}

\* C29: in the statement that get, update or delete issues the placeholders
\* are $1..$k, each used once, values has k elements, the n-th of them is the
\* value of the field whose clause uses $n, and in update every placeholder
\* of SET is lower than every placeholder of WHERE.
PlaceholdersMatchValues ==
    genCall.fn \in {"get", "update", "delete"} =>
        \A i \in Statements :
            LET issued == genCall.trace[i]
                clauses == issued.setParams \o issued.whereParams
                k == Len(clauses)
            IN  /\ {clauses[n].placeholder : n \in 1..k} = 1..k
                /\ IsInjective([n \in 1..k |-> clauses[n].placeholder])
                /\ Len(issued.values) = k
                /\ \A n \in 1..Len(issued.setParams) :
                       issued.values[issued.setParams[n].placeholder] =
                           genCall.object[issued.setParams[n].key]
                /\ \A n \in 1..Len(issued.whereParams) :
                       issued.values[issued.whereParams[n].placeholder] =
                           genCall.criteria[issued.whereParams[n].key]
                /\ \A n \in 1..Len(issued.setParams), m \in 1..Len(issued.whereParams) :
                       issued.setParams[n].placeholder < issued.whereParams[m].placeholder

\* Witness of C29: an update with two fields to set, of different values,
\* and a criterion has issued its statement.
UpdateWithCriterionWitness ==
    /\ genCall.fn = "update"
    /\ Statements # {}
    /\ \E i \in Statements :
           /\ Len(genCall.trace[i].setParams) = 2
           /\ Len(genCall.trace[i].whereParams) = 1
           /\ genCall.trace[i].values[1] # genCall.trace[i].values[2]

\* C30: an insert that leaves an optional foreign-key column out never looks
\* the referenced table up for that column, nullable or not, and so does not
\* fail on it, whatever rows the referenced table holds.
OmittedOptionalForeignKeyUnchecked ==
    genCall.fn = "add" =>
        \A k \in 1..Len(genTable.columns) :
            LET column == genTable.columns[k]
            IN  /\ column.isForeign
                /\ DefaultClass(column) = "optional"
                /\ genCall.object[column.name] = Absent
                => LookupsOf(column.name) = {}

====
